---------------------------- MODULE Spec2Model ----------------------------
(***************************************************************************)
(* State-machine model of the upload, retention and album-archive core of  *)
(* lolisafe: the chunk coordinator, the identifier allocator and upload    *)
(* pipeline, the bulk deleter and the album ZIP generator.                 *)
(*                                                                         *)
(* A Node.js process runs one callback at a time, so every action below is *)
(* the code between two suspension points (await, stream event, timer) of  *)
(* one handler; the handlers of different requests interleave at those     *)
(* points only.                                                            *)
(*                                                                         *)
(* The four components share no state in the parts modelled here, so each  *)
(* has a specification of its own that leaves the other components'        *)
(* variables at their initial values.                                      *)
(***************************************************************************)
EXTENDS Integers, Sequences, FiniteSets, TLC

VARIABLES
  \* ---- chunk coordinator (uploadController.js) ----
  chunksData,   \* uuid -> ChunksData entry (present = key exists in the map)
  creq,         \* chunk-upload or finish request -> request record
  finishResult, \* the answer to the last answered finish request
  \* ---- identifier allocator and upload pipeline (uploadController.js,
  \*      albumsController) ----
  onHold,       \* self.onHold of uploadController: held file identifiers
  albumsOnHold, \* self.onHold of the albums controller
  files,        \* rows of table files (a sequence, in insertion order)
  albumRows,    \* identifiers of the rows of table albums
  disk,         \* names of the files present under uploads/
  ureq,         \* upload / album-create request -> request record
  \* ---- bulk deleter (utilsController.bulkDeleteFromDb) ----
  bd,           \* the running bulkDeleteFromDb call
  bdFiles,      \* rows of table files seen by the bulk deleter
  bdDisk,       \* names present under uploads/ seen by the bulk deleter
  bdEdited,     \* album ids whose editedAt the call has updated
  \* ---- album ZIP generator (albumsController.generateZip) ----
  album,        \* the row of the album whose ZIP is requested
  albumFiles,   \* number of file rows with albumid = album.id
  zipEmitters,  \* self.zipEmitters: is there an entry for the identifier
  zipFile,      \* zips/<identifier>.zip: [state, by, members], by = the build
                \* that wrote it, members = the number of files archived
  builds,       \* number of builds started so far
  zreq,         \* ZIP request -> request record
  now,          \* Math.floor(Date.now() / 1000)
  changedSince, \* has the album changed since the last build started
  \* ---- retention sweeper (lolisafe.js, utilsController.bulkDeleteExpired) ----
  sweep,        \* temporaryUploadsInProgress and the ticks of the interval
  \* ---- upload list (uploadController.js, self.list) ----
  lreq,         \* the list request being answered, and its response
  \* ---- album API (albumsController.js: create, edit, disable, addFiles) ----
  albums,       \* table albums: id -> row
  areq,         \* album request -> request record
  \* ---- album deletion (albumsController.js: delete, disable) ----
  adel,         \* the delete / disable request being answered, and its answer
  bdAlbums,     \* rows of table albums seen by the deletion: id -> row
  bdZips,       \* ids of the albums with a ZIP under zips/
  \* ---- user administration (authController.js: editUser, disableUser,
  \*      deleteUser) ----
  users,        \* table users: id -> row
  usreq,        \* user-administration request -> request record
  \* ---- ingest of one multipart upload (uploadController.js: actuallyUpload,
  \*      scanFiles, storeFilesToDb, sendUploadResponse) ----
  ingest,       \* the upload request being served, and its answer
  igFiles,      \* rows of table files seen by the ingest
  igDisk,       \* names present under uploads/ seen by the ingest
  igEditedAt,   \* album id -> 1 when the request has set its editedAt, else 0
  \* ---- one file field of a multipart upload (uploadController.js: the
  \*      promise of actuallyUpload) ----
  fileField,    \* the streams of the field, its promise and the file object
  \* ---- stats cache (utilsController: generateStats, invalidateStatsCache) ----
  cachedStats,  \* self.cachedStats: category -> entry
  statsGen      \* category -> the table it is computed from and its running
                \* opts.funct(db)

chunkVars == <<chunksData, creq, finishResult>>
uploadVars == <<onHold, albumsOnHold, files, albumRows, disk, ureq>>
bulkVars == <<bd, bdFiles, bdDisk, bdEdited>>
zipVars == <<album, albumFiles, zipEmitters, zipFile, builds, zreq, now, changedSince>>
sweepVars == <<sweep>>
listVars == <<lreq>>
albumVars == <<albums, areq>>
delVars == <<adel, bdAlbums, bdZips>>
userVars == <<users, usreq>>
ingestVars == <<ingest, igFiles, igDisk, igEditedAt>>
fieldVars == <<fileField>>
statsVars == <<cachedStats, statsGen>>
vars == <<chunkVars, uploadVars, bulkVars, zipVars, sweepVars, listVars, albumVars,
          delVars, userVars, ingestVars, fieldVars, statsVars>>

\* What the actions of one component leave alone.
notChunkVars == <<uploadVars, bulkVars, zipVars, sweepVars, listVars, albumVars,
                  delVars, userVars, ingestVars, fieldVars, statsVars>>
notUploadVars == <<chunkVars, bulkVars, zipVars, sweepVars, listVars, albumVars,
                   delVars, userVars, ingestVars, fieldVars, statsVars>>
notBulkVars == <<chunkVars, uploadVars, zipVars, sweepVars, listVars, albumVars,
                 delVars, userVars, ingestVars, fieldVars, statsVars>>
notZipVars == <<chunkVars, uploadVars, bulkVars, sweepVars, listVars, albumVars,
                delVars, userVars, ingestVars, fieldVars, statsVars>>
notSweepVars == <<chunkVars, uploadVars, zipVars, listVars, albumVars,
                  delVars, userVars, ingestVars, fieldVars, statsVars>>
notListVars == <<chunkVars, uploadVars, bulkVars, zipVars, sweepVars, albumVars,
                 delVars, userVars, ingestVars, fieldVars, statsVars>>
notAlbumVars == <<chunkVars, uploadVars, bulkVars, sweepVars, listVars,
                  album, albumFiles, zipEmitters, zipFile, builds, zreq, changedSince,
                  delVars, userVars, ingestVars, fieldVars, statsVars>>
notDelVars == <<chunkVars, uploadVars, zipVars, sweepVars, listVars, albumVars, userVars,
                ingestVars, fieldVars, statsVars>>
notUserVars == <<chunkVars, uploadVars, bulkVars, zipVars, sweepVars, listVars, albumVars,
                 delVars, ingestVars, fieldVars, statsVars>>
notIngestVars == <<chunkVars, uploadVars, bulkVars, zipVars, sweepVars, listVars, albumVars,
                   delVars, userVars, fieldVars, statsVars>>
notFieldVars == <<chunkVars, uploadVars, bulkVars, zipVars, sweepVars, listVars, albumVars,
                  delVars, userVars, ingestVars, statsVars>>
notStatsVars == <<chunkVars, uploadVars, bulkVars, zipVars, sweepVars, listVars, albumVars,
                  delVars, userVars, ingestVars, fieldVars>>

(***************************************************************************)
(* Chunk coordinator                                                       *)
(***************************************************************************)

\* Model bounds.
NumChunkReqs == 2
MaxChunksSent == 3

\* const maxChunksCount = maxSize, with config.uploads.maxSize set to '2MB'.
maxChunksCount == 2

UUIDs == {"u1"}
\* req.ip of a request for a uuid, named relative to the request that created
\* the uuid's entry: the same address, or another one.
IPs == {"creator", "other"}
ChunkReqs == 1..NumChunkReqs

\* blake3.createHash(): the state of a fresh hasher, and the size of the
\* space of hasher states.
HashEmpty == 0
HashSpace == 64

\* hashStream.update(data) with the bytes of one chunk.
HashUpdate(hash, bytes) == (hash * 5 + bytes) % HashSpace

\* The digest of a whole byte string, hashed in one go.
RECURSIVE Digest(_)
Digest(content) ==
  IF content = <<>> THEN HashEmpty
  ELSE HashUpdate(Digest(SubSeq(content, 1, Len(content) - 1)),
                  content[Len(content)])

\* A key that is not in the chunksData map.
NoChunksData ==
  [present |-> FALSE, chunks |-> 0, processing |-> FALSE, writeStream |-> "none",
   timeout |-> FALSE, dir |-> FALSE, written |-> <<>>, hashed |-> HashEmpty,
   shared |-> FALSE, serial |-> FALSE]

\* new ChunksData(uuid): chunks = 0, no streams yet, processing = true.
\* The code keeps no record of the last two fields: shared tells that the
\* entry has served a request from another address than its creator's, and
\* serial that each request it served arrived when no other request was being
\* served.
NewChunksData(serial) ==
  [NoChunksData EXCEPT !.present = TRUE, !.processing = TRUE, !.serial = serial]

IdleChunkReq ==
  [pc |-> "idle", uuid |-> "u1", stale |-> FALSE, count |-> 0, size |-> 0,
   given |-> FALSE, content |-> <<>>, hash |-> HashEmpty, serial |-> FALSE]

\* The answer to a finish request: its error ("" for success), the chunks
\* counter of the entry it found, whether the client reported a size, what
\* the request has put under uploads/ (moved, content) and in the row it
\* inserted (size, hash).  Of a request that moved nothing, only the error
\* and the counter are kept.
FinishResult(error, req, moved) ==
  IF moved
    THEN [error |-> error, count |-> req.count, given |-> req.given,
          moved |-> TRUE, size |-> req.size, content |-> req.content,
          hash |-> req.hash, serial |-> req.serial]
    ELSE [error |-> error, count |-> req.count, given |-> FALSE,
          moved |-> FALSE, size |-> 0, content |-> <<>>, hash |-> HashEmpty,
          serial |-> FALSE]

\* No finish request has been answered yet.
NoFinishResult == FinishResult("none", IdleChunkReq, FALSE)

ChunkInit ==
  /\ chunksData = [u \in UUIDs |-> NoChunksData]
  /\ creq = [r \in ChunkReqs |-> IdleChunkReq]
  /\ finishResult = NoFinishResult

\* The request has been answered, or has not arrived yet.
ChunkReqFree(r) == creq[r].pc = "idle"

\* No request is being served.
ChunkQuiet == \A q \in ChunkReqs : ChunkReqFree(q)

\* Requests are numbered in the order they arrive.
ChunkArrivesNext(r) ==
  /\ ChunkReqFree(r)
  /\ \A q \in ChunkReqs : q < r => ~ChunkReqFree(q)

\* The entry initChunks leaves for a uuid that already has one and is not
\* processing: only the timeout is reset.
InitChunksExisting(cd) == [cd EXCEPT !.timeout = TRUE]

\* A multipart request with uuid and chunkindex fields reaches its file field:
\* initChunks(uuid) up to its first await, or up to its return.
ChunkArrive(r, u, ip) ==
  /\ ChunkArrivesNext(r)
  /\ chunksData[u].chunks < MaxChunksSent
  /\ IF ~chunksData[u].present
       THEN /\ ip = "creator"
            /\ chunksData' = [chunksData EXCEPT ![u] = NewChunksData(ChunkQuiet)]
            /\ creq' = [creq EXCEPT ![r] =
                          [IdleChunkReq EXCEPT !.pc = "init", !.uuid = u]]
       ELSE IF chunksData[u].processing
         THEN /\ creq' = [creq EXCEPT ![r] = IdleChunkReq]
              /\ UNCHANGED chunksData
         ELSE /\ chunksData' = [chunksData EXCEPT ![u] =
                                  [InitChunksExisting(@) EXCEPT !.shared = @ \/ ip = "other",
                                     !.serial = @ /\ ChunkQuiet]]
              /\ creq' = [creq EXCEPT ![r] =
                            [IdleChunkReq EXCEPT !.pc = "writing", !.uuid = u]]
  /\ finishResult' = NoFinishResult
  /\ UNCHANGED notChunkVars

\* initChunks after paths.access / paths.mkdir: the streams are created, the
\* timeout is set, and the request starts piping into the write stream.
ChunkInitDone(r) ==
  /\ creq[r].pc = "init"
  /\ LET u == creq[r].uuid IN
       /\ chunksData[u].present
       /\ chunksData' = [chunksData EXCEPT ![u].writeStream = "open",
                                           ![u].dir = TRUE,
                                           ![u].timeout = TRUE]
  /\ creq' = [creq EXCEPT ![r].pc = "writing"]
  /\ UNCHANGED <<finishResult, notChunkVars>>

\* paths.access (other than ENOENT) or paths.mkdir throws: the request fails,
\* the entry stays as the constructor left it.
ChunkInitFail(r) ==
  /\ creq[r].pc = "init"
  /\ creq' = [creq EXCEPT ![r] = IdleChunkReq]
  /\ UNCHANGED chunksData
  /\ UNCHANGED <<finishResult, notChunkVars>>

\* readStream.pipe(writeStream, { end: false }) and the 'data' listener that
\* feeds the hasher: the bytes of the chunk reach the tmp file (opened with
\* flags 'a') and the hasher in the same order.  A chunk's bytes are named by
\* the position the chunk takes in the session.
ChunkPipedUnhashed(cd) ==
  IF cd.writeStream = "open"
    THEN [cd EXCEPT !.written = Append(@, cd.chunks + 1)]
    ELSE cd
ChunkPiped(cd) ==
  IF cd.writeStream = "open"
    THEN [cd EXCEPT !.written = Append(@, cd.chunks + 1),
                    !.hashed = HashUpdate(@, cd.chunks + 1)]
    ELSE cd

\* readStream 'end': the field's promise resolves, req.multipart() returns and
\* actuallyUpload counts the chunk and clears processing (when the entry is
\* still in the map).  A request whose ChunksData object has left the map
\* piped into a destroyed write stream.
ChunkWriteEnd(r) ==
  /\ creq[r].pc = "writing"
  /\ LET u == creq[r].uuid
         piped == IF creq[r].stale THEN chunksData[u] ELSE ChunkPiped(chunksData[u])
     IN chunksData' =
         IF chunksData[u].present
           THEN [chunksData EXCEPT ![u] =
                   [piped EXCEPT !.chunks = @ + 1, !.processing = FALSE]]
           ELSE chunksData
  /\ creq' = [creq EXCEPT ![r] = IdleChunkReq]
  /\ UNCHANGED <<finishResult, notChunkVars>>

\* A stream 'error': _reject destroys the write stream of the ChunksData
\* object the request holds and the request fails; chunks and processing are
\* left alone.
ChunkWriteError(r) ==
  /\ creq[r].pc = "writing"
  /\ LET u == creq[r].uuid IN
       chunksData' =
         IF chunksData[u].present /\ ~creq[r].stale
           THEN [chunksData EXCEPT ![u].writeStream = "destroyed"]
           ELSE chunksData
  /\ creq' = [creq EXCEPT ![r] = IdleChunkReq]
  /\ UNCHANGED <<finishResult, notChunkVars>>

\* cleanUpChunks(uuid): the streams are destroyed, tmp is unlinked (ENOENT is
\* ignored), the directory is removed and the map entry deleted.  paths.rmdir
\* throws when the directory was never made, and the entry then stays.
CleanUpChunks(cd) == IF cd.dir THEN NoChunksData ELSE cd

\* The requests whose ChunksData object leaves the map keep the object, whose
\* write stream is now destroyed: they append nothing more, and their read
\* streams may still end or fail.
AfterCleanUp(u, reqs) ==
  [r \in ChunkReqs |->
     IF reqs[r].uuid = u /\ reqs[r].pc = "writing" /\ chunksData[u].dir
       THEN [reqs[r] EXCEPT !.stale = TRUE]
       ELSE reqs[r]]

\* The idle timeout fires: onTimeout -> cleanUpChunks(uuid).
ChunkTimeout(u) ==
  /\ chunksData[u].present
  /\ chunksData[u].timeout
  /\ chunksData' = [chunksData EXCEPT ![u] =
                        CleanUpChunks([@ EXCEPT !.timeout = FALSE])]
  /\ creq' = AfterCleanUp(u, creq)
  /\ UNCHANGED <<finishResult, notChunkVars>>

\* chunks < 2 || chunks > maxChunksCount
NoChunksCountCheck(chunks) == FALSE
InvalidChunksCount(chunks) == chunks < 2 \/ chunks > maxChunksCount

\* file.size of a finish request that reports no size (undefined).
NoSize == 0

\* The sizes a finish request may report: none, or one up to the largest
\* file that passes the count check.
FinishSizes == {NoSize} \cup 1..maxChunksCount

\* file.size !== bytesWritten, when the client reports a size.
SizeMismatch(size, bytesWritten) == size # NoSize /\ size # bytesWritten

\* The error actuallyFinishChunks throws before its first await, "" if none.
\* writeStream.end() throws when the entry has no write stream.  The hasher
\* of a destroyed write stream has been disposed of, and digest() of a
\* disposed hasher throws.  config.filterEmptyFile is true.
FinishError(cd, size) ==
  IF ~cd.present THEN "uuid"
  ELSE IF cd.processing THEN "processing"
  ELSE IF cd.writeStream = "none" THEN "stream"
  ELSE IF cd.writeStream = "destroyed" THEN "digest"
  ELSE IF InvalidChunksCount(cd.chunks) THEN "count"
  ELSE IF SizeMismatch(size, Len(cd.written)) THEN "size"
  ELSE IF Len(cd.written) = 0 THEN "empty"
  ELSE ""

\* POST /api/upload/finishchunks for one uuid, up to the await of paths.lstat
\* or up to the throw; the catch of finishChunks calls cleanUpChunks when the
\* uuid has an entry.
FinishChunks(r, u, ip, size) ==
  /\ ChunkArrivesNext(r)
  /\ LET cd == chunksData[u]
         error == FinishError(cd, size)
         given == size # NoSize
         cleared == [cd EXCEPT !.timeout = FALSE]
         ended == [cleared EXCEPT !.writeStream = "ended",
                                  !.shared = @ \/ ip = "other",
                                  !.serial = @ /\ ChunkQuiet]
         req == [IdleChunkReq EXCEPT !.uuid = u, !.count = cd.chunks,
                                     !.given = given]
     IN IF error = ""
          THEN /\ chunksData' = [chunksData EXCEPT ![u] = ended]
               /\ creq' = [creq EXCEPT ![r] =
                    [req EXCEPT !.pc = "finishing", !.hash = cd.hashed,
                       !.size = IF given THEN size ELSE Len(cd.written)]]
               /\ finishResult' = NoFinishResult
          ELSE /\ chunksData' =
                    [chunksData EXCEPT ![u] =
                       IF error \in {"uuid", "processing"} THEN CleanUpChunks(cd)
                       ELSE CleanUpChunks(cleared)]
               /\ creq' = AfterCleanUp(u, creq)
               /\ finishResult' = FinishResult(error, req, FALSE)
  /\ UNCHANGED notChunkVars

\* paths.lstat confirms the size, an identifier is allocated, tmp is moved to
\* uploads/ and cleanUpChunks removes the session.
FinishMove(r) ==
  /\ creq[r].pc = "finishing"
  /\ LET u == creq[r].uuid
         cd == chunksData[u]
     IN /\ cd.present
        /\ cd.dir
        /\ Len(cd.written) = creq[r].size
        /\ chunksData' = [chunksData EXCEPT ![u] = CleanUpChunks(@)]
        /\ creq' = [AfterCleanUp(u, creq) EXCEPT ![r] =
                      [creq[r] EXCEPT !.pc = "moved", !.content = cd.written,
                                      !.serial = cd.serial]]
  /\ UNCHANGED <<finishResult, notChunkVars>>

\* paths.lstat, the allocator or the move throws, or lstat reports another
\* size: the catch of finishChunks cleans up.
FinishMoveError(r) ==
  /\ creq[r].pc = "finishing"
  /\ LET u == creq[r].uuid IN
       /\ chunksData' = [chunksData EXCEPT ![u] = CleanUpChunks(@)]
       /\ creq' = [AfterCleanUp(u, creq) EXCEPT ![r] = IdleChunkReq]
  /\ finishResult' = FinishResult("move", creq[r], FALSE)
  /\ UNCHANGED notChunkVars

\* scanFiles, stripTags and storeFilesToDb: the row is inserted with the size
\* and the hash taken in actuallyFinishChunks.
FinishStore(r) ==
  /\ creq[r].pc = "moved"
  /\ creq' = [creq EXCEPT ![r] = IdleChunkReq]
  /\ finishResult' = FinishResult("", creq[r], TRUE)
  /\ UNCHANGED <<chunksData, notChunkVars>>

\* The scan rejects the file or the insert throws: the catch of finishChunks
\* cleans up whatever entry the uuid has by now; the moved file stays.
FinishStoreError(r) ==
  /\ creq[r].pc = "moved"
  /\ LET u == creq[r].uuid IN
       /\ chunksData' = [chunksData EXCEPT ![u] = CleanUpChunks(@)]
       /\ creq' = [AfterCleanUp(u, creq) EXCEPT ![r] = IdleChunkReq]
  /\ finishResult' = FinishResult("store", creq[r], TRUE)
  /\ UNCHANGED notChunkVars

\* A multipart request that carries the uuid field and no chunkindex field:
\* its files are not chunks (file.isChunk is false) and are written under
\* uploads/ like any upload, without a call of initChunks.  When the writes
\* are done actuallyUpload finds chunksData[uuid], counts one chunk for each of
\* the n files, clears processing and answers { success: true }.
PlainUploadWithUuid(u, n) ==
  /\ chunksData[u].present
  /\ chunksData[u].chunks + n <= MaxChunksSent
  /\ chunksData' = [chunksData EXCEPT ![u].chunks = @ + n, ![u].processing = FALSE]
  /\ UNCHANGED <<creq, finishResult, notChunkVars>>

ChunkNext ==
  \/ \E r \in ChunkReqs, u \in UUIDs, ip \in IPs : ChunkArrive(r, u, ip)
  \/ \E r \in ChunkReqs : ChunkInitDone(r)
  \/ \E r \in ChunkReqs : ChunkInitFail(r)
  \/ \E r \in ChunkReqs : ChunkWriteEnd(r)
  \/ \E r \in ChunkReqs : ChunkWriteError(r)
  \/ \E u \in UUIDs : ChunkTimeout(u)
  \/ \E r \in ChunkReqs, u \in UUIDs, ip \in IPs, size \in FinishSizes :
        FinishChunks(r, u, ip, size)
  \/ \E r \in ChunkReqs : FinishMove(r)
  \/ \E r \in ChunkReqs : FinishMoveError(r)
  \/ \E r \in ChunkReqs : FinishStore(r)
  \/ \E r \in ChunkReqs : FinishStoreError(r)

(***************************************************************************)
(* Identifier allocator and upload pipeline                                *)
(***************************************************************************)

\* Model bound: the number of requests in flight.
NumUploadReqs == 2

\* utils.idMaxTries = config.uploads.maxTries.
idMaxTries == 3

UploadReqs == 1..NumUploadReqs
\* The strings randomstring.generate() may return.
Identifiers == {"a", "b"}
\* utils.extname() of the client's file name: "" for a name without extension.
Extnames == {"", ".x"}
\* The bytes of an upload, standing for their (hash, size).
Contents == {"c1", "c2"}
\* user.id of the uploader; Anonymous is user === undefined.
Anonymous == 0
Owners == {Anonymous, 1}

NoIdentifier == "-"

\* file.filename = identifier + file.extname
FileName(identifier, extname) == [id |-> identifier, ext |-> extname]

\* SQL: name LIKE '<identifier>.%' for an alphanumeric identifier: the name
\* starts with the identifier followed by a dot.  All identifiers of the model
\* have one length, so a name starts with the identifier iff its identifier
\* part equals it; it continues with a dot iff its extension is not empty.
NameLikeIdentifierDot(name, identifier) ==
  name.id = identifier /\ name.ext # ""

IdleUploadReq ==
  [kind |-> "none", pc |-> "idle", owner |-> Anonymous, ext |-> "", content |-> "c1",
   tries |-> 0, identifier |-> NoIdentifier, identifiers |-> {},
   inserted |-> FALSE, repeatedOf |-> 0, success |-> FALSE, response |-> <<>>]

UploadInit ==
  /\ onHold = {}
  /\ albumsOnHold = {}
  /\ files = <<>>
  /\ albumRows = {}
  /\ disk = {}
  /\ ureq = [r \in UploadReqs |-> IdleUploadReq]

\* The throw of a handler reaches the top-level error translator, which sends
\* the error response; the request then waits for the response to finish.
Thrown(req) == [req EXCEPT !.pc = "respond", !.success = FALSE, !.tries = 0]

\* The response has been sent and res.locals.identifiers deleted: what is left
\* of the request is its outcome and, for a stored upload, the name it stored.
Finished(req) ==
  [IdleUploadReq EXCEPT !.kind = req.kind, !.pc = "finished",
                        !.success = req.success, !.inserted = req.inserted,
                        !.identifier = IF req.inserted THEN req.identifier ELSE NoIdentifier,
                        !.ext = IF req.inserted THEN req.ext ELSE ""]

\* Requests are numbered in the order they arrive.
ArrivesNext(r) == \A q \in 1..(r - 1) : ureq[q].pc # "idle"

\* self.upload -> self.actuallyUpload: a multipart request (not a chunk) reaches
\* its file field.  The request's inputs (the extension of the file's name,
\* the uploader, the bytes) enter the model at the step that first uses them.
UploadStart(r) ==
  /\ ureq[r].pc = "idle"
  /\ ArrivesNext(r)
  /\ ureq' = [ureq EXCEPT ![r] = [IdleUploadReq EXCEPT !.kind = "upload", !.pc = "alloc"]]
  /\ UNCHANGED <<onHold, albumsOnHold, files, albumRows, disk>>
  /\ UNCHANGED notUploadVars

\* getUniqueUploadIdentifier, one iteration up to the database query: a held
\* identifier is skipped, any other is put on hold.
AllocGenerate(r, identifier) ==
  /\ ureq[r].kind = "upload"
  /\ ureq[r].pc = "alloc"
  /\ ureq[r].tries < idMaxTries
  /\ IF identifier \in onHold
       THEN /\ ureq' = [ureq EXCEPT ![r].tries = @ + 1]
            /\ UNCHANGED onHold
       ELSE /\ onHold' = onHold \cup {identifier}
            /\ ureq' = [ureq EXCEPT ![r].pc = "lookup", ![r].identifier = identifier]
  /\ UNCHANGED <<albumsOnHold, files, albumRows, disk>>
  /\ UNCHANGED notUploadVars

\* The rows the allocator's query matches: whereRaw('?? like ?', ['name', `${identifier}.%`]).
AllocMatches(identifier) ==
  {i \in 1..Len(files) : NameLikeIdentifierDot(files[i].name, identifier)}

\* getUniqueUploadIdentifier after the database query returned: a match
\* releases the identifier and retries, no match registers it in
\* res.locals.identifiers and returns it.
AllocLookupDone(r) ==
  /\ ureq[r].kind = "upload"
  /\ ureq[r].pc = "lookup"
  /\ IF AllocMatches(ureq[r].identifier) # {}
       THEN /\ onHold' = onHold \ {ureq[r].identifier}
            /\ ureq' = [ureq EXCEPT ![r].pc = "alloc", ![r].tries = @ + 1,
                                    ![r].identifier = NoIdentifier]
       ELSE /\ ureq' = [ureq EXCEPT ![r].pc = "stream", ![r].tries = 0,
                                    ![r].identifiers = @ \cup {ureq[r].identifier}]
            /\ UNCHANGED onHold
  /\ UNCHANGED <<albumsOnHold, files, albumRows, disk>>
  /\ UNCHANGED notUploadVars

\* The database query of getUniqueUploadIdentifier rejects: the exception
\* leaves the function between onHold.add and every onHold.delete.
AllocLookupError(r) ==
  /\ ureq[r].kind = "upload"
  /\ ureq[r].pc = "lookup"
  /\ ureq' = [ureq EXCEPT ![r] = Thrown([@ EXCEPT !.identifier = NoIdentifier])]
  /\ UNCHANGED <<onHold, albumsOnHold, files, albumRows, disk>>
  /\ UNCHANGED notUploadVars

\* getUniqueUploadIdentifier: the loop ends and ServerError is thrown.
AllocExhausted(r) ==
  /\ ureq[r].kind = "upload"
  /\ ureq[r].pc = "alloc"
  /\ ureq[r].tries >= idMaxTries
  /\ ureq' = [ureq EXCEPT ![r] = Thrown(@)]
  /\ UNCHANGED <<onHold, albumsOnHold, files, albumRows, disk>>
  /\ UNCHANGED notUploadVars

StagedName(req) == FileName(req.identifier, req.ext)

\* The write stream emits 'finish' (and the scanner its verdict): the bytes are
\* under uploads/<identifier><extname>.
StreamFinish(r, extname) ==
  /\ ureq[r].pc = "stream"
  /\ disk' = disk \cup {FileName(ureq[r].identifier, extname)}
  /\ ureq' = [ureq EXCEPT ![r].pc = "scan", ![r].ext = extname]
  /\ UNCHANGED <<onHold, albumsOnHold, files, albumRows>>
  /\ UNCHANGED notUploadVars

\* A stream error: _reject, then the catch of req.multipart() unlinks the
\* request's files and re-throws.
StreamError(r, extname) ==
  /\ ureq[r].pc = "stream"
  /\ disk' = disk \ {FileName(ureq[r].identifier, extname)}
  /\ ureq' = [ureq EXCEPT ![r] = Thrown(@)]
  /\ UNCHANGED <<onHold, albumsOnHold, files, albumRows>>
  /\ UNCHANGED notUploadVars

\* The scanner gate passes (or no scanner is configured); stripTags passes.
ScanClean(r) ==
  /\ ureq[r].pc = "scan"
  /\ ureq' = [ureq EXCEPT ![r].pc = "store"]
  /\ UNCHANGED <<onHold, albumsOnHold, files, albumRows, disk>>
  /\ UNCHANGED notUploadVars

\* assertPassthroughScans / scanFiles report a threat or an unscannable file:
\* the staged files are unlinked and ClientError is thrown.
ScanReject(r) ==
  /\ ureq[r].pc = "scan"
  /\ disk' = disk \ {StagedName(ureq[r])}
  /\ ureq' = [ureq EXCEPT ![r] = Thrown(@)]
  /\ UNCHANGED <<onHold, albumsOnHold, files, albumRows>>
  /\ UNCHANGED notUploadVars

\* storeFilesToDb's duplicate query: rows of the same owner (userid IS NULL
\* for an anonymous upload) with the same hash and size; .first() takes the
\* oldest.
DuplicateRows(owner, content) ==
  {i \in 1..Len(files) : files[i].userid = owner /\ files[i].content = content}

Min(S) == CHOOSE x \in S : \A y \in S : x <= y

\* One entry of the response, as sendUploadResponse builds it: name and url
\* always, deleteUrl for a logged-in uploader.  (expirydate and original depend
\* on the retention age and the /nojs route, which are not modelled.)
ResponseEntry(name, owner) ==
  [k \in {"name", "url"} \cup (IF owner # Anonymous THEN {"deleteUrl"} ELSE {}) |->
     IF k = "name" THEN <<name>> ELSE <<k, name>>]

\* storeFilesToDb after the duplicate query returned.  A duplicate: the staged
\* file is unlinked, the existing row goes to exists[] and, no row being new,
\* the response is sent.  No duplicate: the new row goes to files[] and is
\* inserted next.
StoreLookupDone(r, owner, content) ==
  /\ ureq[r].pc = "store"
  /\ LET dups == DuplicateRows(owner, content) IN
       IF dups # {}
         THEN /\ disk' = disk \ {StagedName(ureq[r])}
              /\ ureq' = [ureq EXCEPT ![r].pc = "respond", ![r].success = TRUE,
                            ![r].owner = owner, ![r].content = content,
                            ![r].repeatedOf = Min(dups),
                            ![r].response =
                               <<ResponseEntry(files[Min(dups)].name, owner)>>]
         ELSE /\ ureq' = [ureq EXCEPT ![r].pc = "insert", ![r].owner = owner,
                                      ![r].content = content]
              /\ UNCHANGED disk
  /\ UNCHANGED <<onHold, albumsOnHold, files, albumRows>>
  /\ UNCHANGED notUploadVars

\* The duplicate query rejects: storeFilesToDb throws.
StoreLookupError(r) ==
  /\ ureq[r].pc = "store"
  /\ ureq' = [ureq EXCEPT ![r] = Thrown(@)]
  /\ UNCHANGED <<onHold, albumsOnHold, files, albumRows, disk>>
  /\ UNCHANGED notUploadVars

\* db.table('files').insert(files), then sendUploadResponse.
StoreInsert(r) ==
  /\ ureq[r].kind = "upload"
  /\ ureq[r].pc = "insert"
  /\ files' = Append(files, [name |-> StagedName(ureq[r]), userid |-> ureq[r].owner,
                             content |-> ureq[r].content])
  /\ ureq' = [ureq EXCEPT ![r].pc = "respond", ![r].success = TRUE,
                          ![r].inserted = TRUE,
                          ![r].response =
                             <<ResponseEntry(StagedName(ureq[r]), ureq[r].owner)>>]
  /\ UNCHANGED <<onHold, albumsOnHold, albumRows, disk>>
  /\ UNCHANGED notUploadVars

\* The insert rejects: storeFilesToDb throws.
StoreInsertError(r) ==
  /\ ureq[r].kind = "upload"
  /\ ureq[r].pc = "insert"
  /\ ureq' = [ureq EXCEPT ![r] = Thrown(@)]
  /\ UNCHANGED <<onHold, albumsOnHold, files, albumRows, disk>>
  /\ UNCHANGED notUploadVars

\* unholdUploadIdentifiers(res): every identifier of res.locals.identifiers
\* leaves onHold.
UnholdUploadIdentifiers(held, req) == held \ req.identifiers

\* The response emits 'finish' (or, for a dropped connection, actuallyUpload
\* calls unholdUploadIdentifiers itself).
UploadResponseFinish(r) ==
  /\ ureq[r].kind = "upload"
  /\ ureq[r].pc = "respond"
  /\ onHold' = UnholdUploadIdentifiers(onHold, ureq[r])
  /\ ureq' = [ureq EXCEPT ![r] = Finished(@)]
  /\ UNCHANGED <<albumsOnHold, files, albumRows, disk>>
  /\ UNCHANGED notUploadVars

\* albums.create, after the name check: the handler asks for an identifier.
AlbumCreateStart(r) ==
  /\ ureq[r].pc = "idle"
  /\ ArrivesNext(r)
  /\ ureq' = [ureq EXCEPT ![r] = [IdleUploadReq EXCEPT !.kind = "album", !.pc = "alloc"]]
  /\ UNCHANGED <<onHold, albumsOnHold, files, albumRows, disk>>
  /\ UNCHANGED notUploadVars

\* getUniqueAlbumIdentifier, one iteration up to the database query.
AlbumAllocGenerate(r, identifier) ==
  /\ ureq[r].kind = "album"
  /\ ureq[r].pc = "alloc"
  /\ ureq[r].tries < idMaxTries
  /\ IF identifier \in albumsOnHold
       THEN /\ ureq' = [ureq EXCEPT ![r].tries = @ + 1]
            /\ UNCHANGED albumsOnHold
       ELSE /\ albumsOnHold' = albumsOnHold \cup {identifier}
            /\ ureq' = [ureq EXCEPT ![r].pc = "lookup", ![r].identifier = identifier]
  /\ UNCHANGED <<onHold, files, albumRows, disk>>
  /\ UNCHANGED notUploadVars

\* The allocator's query on albums: where('identifier', identifier).
AlbumAllocMatches(identifier) == {a \in albumRows : a = identifier}

\* getUniqueAlbumIdentifier after the database query returned.
AlbumAllocLookupDone(r) ==
  /\ ureq[r].kind = "album"
  /\ ureq[r].pc = "lookup"
  /\ IF AlbumAllocMatches(ureq[r].identifier) # {}
       THEN /\ albumsOnHold' = albumsOnHold \ {ureq[r].identifier}
            /\ ureq' = [ureq EXCEPT ![r].pc = "alloc", ![r].tries = @ + 1,
                                    ![r].identifier = NoIdentifier]
       ELSE /\ ureq' = [ureq EXCEPT ![r].pc = "insert", ![r].tries = 0,
                                    ![r].identifiers = @ \cup {ureq[r].identifier}]
            /\ UNCHANGED albumsOnHold
  /\ UNCHANGED <<onHold, files, albumRows, disk>>
  /\ UNCHANGED notUploadVars

\* The database query of getUniqueAlbumIdentifier rejects.
AlbumAllocLookupError(r) ==
  /\ ureq[r].kind = "album"
  /\ ureq[r].pc = "lookup"
  /\ ureq' = [ureq EXCEPT ![r] = Thrown([@ EXCEPT !.identifier = NoIdentifier])]
  /\ UNCHANGED <<onHold, albumsOnHold, files, albumRows, disk>>
  /\ UNCHANGED notUploadVars

\* getUniqueAlbumIdentifier: the loop ends and ServerError is thrown.
AlbumAllocExhausted(r) ==
  /\ ureq[r].kind = "album"
  /\ ureq[r].pc = "alloc"
  /\ ureq[r].tries >= idMaxTries
  /\ ureq' = [ureq EXCEPT ![r] = Thrown(@)]
  /\ UNCHANGED <<onHold, albumsOnHold, files, albumRows, disk>>
  /\ UNCHANGED notUploadVars

\* albums.create: the album row is inserted and the response sent.
AlbumInsert(r) ==
  /\ ureq[r].kind = "album"
  /\ ureq[r].pc = "insert"
  /\ albumRows' = albumRows \cup {ureq[r].identifier}
  /\ ureq' = [ureq EXCEPT ![r].pc = "respond", ![r].success = TRUE, ![r].inserted = TRUE]
  /\ UNCHANGED <<onHold, albumsOnHold, files, disk>>
  /\ UNCHANGED notUploadVars

\* The insert rejects: albums.create throws.
AlbumInsertError(r) ==
  /\ ureq[r].kind = "album"
  /\ ureq[r].pc = "insert"
  /\ ureq' = [ureq EXCEPT ![r] = Thrown(@)]
  /\ UNCHANGED <<onHold, albumsOnHold, files, albumRows, disk>>
  /\ UNCHANGED notUploadVars

\* unholdAlbumIdentifiers(res)
UnholdAlbumIdentifiers(held, req) == held \ req.identifiers

\* The response of albums.create emits 'finish'.
AlbumResponseFinish(r) ==
  /\ ureq[r].kind = "album"
  /\ ureq[r].pc = "respond"
  /\ albumsOnHold' = UnholdAlbumIdentifiers(albumsOnHold, ureq[r])
  /\ ureq' = [ureq EXCEPT ![r] = Finished(@)]
  /\ UNCHANGED <<onHold, files, albumRows, disk>>
  /\ UNCHANGED notUploadVars

\* getUniqueUploadIdentifier without queryDatabaseForIdentifierMatch, one
\* iteration up to the await of paths.access: the name to look for is the
\* identifier followed by the extension of the client's file name.  Nothing
\* is put on hold in this mode.
FsAllocGenerate(r, identifier, extname) ==
  /\ ureq[r].kind = "upload"
  /\ ureq[r].pc = "alloc"
  /\ ureq[r].tries < idMaxTries
  /\ ureq' = [ureq EXCEPT ![r].pc = "access", ![r].identifier = identifier,
                          ![r].ext = extname]
  /\ UNCHANGED <<onHold, albumsOnHold, files, albumRows, disk>>
  /\ UNCHANGED notUploadVars

\* paths.access settles: the name exists and the loop goes on, or ENOENT and
\* the identifier is returned.
FsAccessDone(r) ==
  /\ ureq[r].kind = "upload"
  /\ ureq[r].pc = "access"
  /\ ureq' = IF StagedName(ureq[r]) \in disk
               THEN [ureq EXCEPT ![r].pc = "alloc", ![r].tries = @ + 1,
                                 ![r].identifier = NoIdentifier, ![r].ext = ""]
               ELSE [ureq EXCEPT ![r].pc = "open", ![r].tries = 0]
  /\ UNCHANGED <<onHold, albumsOnHold, files, albumRows, disk>>
  /\ UNCHANGED notUploadVars

\* paths.access rejects with another error than ENOENT: the test
\* (error & error.code !== 'ENOENT') is a bitwise and of an object, which is
\* 0, so nothing is re-thrown and the identifier is returned.
FsAccessError(r) ==
  /\ ureq[r].kind = "upload"
  /\ ureq[r].pc = "access"
  /\ ureq' = [ureq EXCEPT ![r].pc = "open", ![r].tries = 0]
  /\ UNCHANGED <<onHold, albumsOnHold, files, albumRows, disk>>
  /\ UNCHANGED notUploadVars

\* fs.createWriteStream(file.path): the file is created, or truncated when
\* the name exists.
FsStreamOpen(r) ==
  /\ ureq[r].kind = "upload"
  /\ ureq[r].pc = "open"
  /\ disk' = disk \cup {StagedName(ureq[r])}
  /\ ureq' = [ureq EXCEPT ![r].pc = "stream"]
  /\ UNCHANGED <<onHold, albumsOnHold, files, albumRows>>
  /\ UNCHANGED notUploadVars

\* The upload pipeline with the allocator in filesystem-check mode.
UploadFsNext ==
  \/ \E r \in UploadReqs : UploadStart(r)
  \/ \E r \in UploadReqs, i \in Identifiers, e \in Extnames : FsAllocGenerate(r, i, e)
  \/ \E r \in UploadReqs : FsAccessDone(r)
  \/ \E r \in UploadReqs : FsAccessError(r)
  \/ \E r \in UploadReqs : AllocExhausted(r)
  \/ \E r \in UploadReqs : FsStreamOpen(r)
  \/ \E r \in UploadReqs : StreamFinish(r, ureq[r].ext)
  \/ \E r \in UploadReqs : StreamError(r, ureq[r].ext)
  \/ \E r \in UploadReqs : ScanClean(r)
  \/ \E r \in UploadReqs, o \in Owners, c \in Contents : StoreLookupDone(r, o, c)
  \/ \E r \in UploadReqs : StoreInsert(r)
  \/ \E r \in UploadReqs : UploadResponseFinish(r)

UploadNext ==
  \/ \E r \in UploadReqs : UploadStart(r)
  \/ \E r \in UploadReqs, i \in Identifiers : AllocGenerate(r, i)
  \/ \E r \in UploadReqs : AllocLookupDone(r)
  \/ \E r \in UploadReqs : AllocLookupError(r)
  \/ \E r \in UploadReqs : AllocExhausted(r)
  \/ \E r \in UploadReqs, e \in Extnames : StreamFinish(r, e)
  \/ \E r \in UploadReqs, e \in Extnames : StreamError(r, e)
  \/ \E r \in UploadReqs : ScanClean(r)
  \/ \E r \in UploadReqs : ScanReject(r)
  \/ \E r \in UploadReqs, o \in Owners, c \in Contents : StoreLookupDone(r, o, c)
  \/ \E r \in UploadReqs : StoreLookupError(r)
  \/ \E r \in UploadReqs : StoreInsert(r)
  \/ \E r \in UploadReqs : StoreInsertError(r)
  \/ \E r \in UploadReqs : UploadResponseFinish(r)
  \/ \E r \in UploadReqs : AlbumCreateStart(r)
  \/ \E r \in UploadReqs, i \in Identifiers : AlbumAllocGenerate(r, i)
  \/ \E r \in UploadReqs : AlbumAllocLookupDone(r)
  \/ \E r \in UploadReqs : AlbumAllocLookupError(r)
  \/ \E r \in UploadReqs : AlbumAllocExhausted(r)
  \/ \E r \in UploadReqs : AlbumInsert(r)
  \/ \E r \in UploadReqs : AlbumInsertError(r)
  \/ \E r \in UploadReqs : AlbumResponseFinish(r)

(***************************************************************************)
(* Bulk deleter                                                            *)
(***************************************************************************)

\* SQLITE_LIMIT_VARIABLE_NUMBER: the values are split into chunks of at most
\* this many.  Every call of the model passes fewer values, so the call has
\* exactly one chunk.
MAX_VARIABLES_CHUNK_SIZE == 999

\* The rows of table files when the model starts: two files of user 1, in
\* albums 1 and 2, and one file of user 2 in no album (albumid NULL = 0).
\* The first expires at second 1, the second never (expirydate NULL = 0), the
\* third at second 2.
InitialFileRows ==
  { [id |-> 1, name |-> "f1", userid |-> 1, albumid |-> 1, expirydate |-> 1],
    [id |-> 2, name |-> "f2", userid |-> 2, albumid |-> 0, expirydate |-> 0],
    [id |-> 3, name |-> "f3", userid |-> 1, albumid |-> 2, expirydate |-> 2] }

\* The values a caller may pass for each field; 9 and "zz" match no row.
BulkValues(field) == IF field = "id" THEN {1, 2, 3, 9} ELSE {"f1", "f2", "f3", "zz"}

\* The callers: two plain users and a moderator (perms.is(user, 'moderator')).
Actors ==
  { [id |-> 1, moderator |-> FALSE],
    [id |-> 2, moderator |-> FALSE],
    [id |-> 3, moderator |-> TRUE] }

\* file[field]
FieldOf(file, field) == IF field = "id" THEN file.id ELSE file.name

IdleBulk ==
  [pc |-> "idle", field |-> "id", values |-> {}, actor |-> [id |-> 1, moderator |-> FALSE],
   before |-> {}, diskBefore |-> {}, pending |-> {}, unlinked |-> {}, failed |-> {},
   albumids |-> {}, error |-> FALSE]
\* (before, diskBefore: the table and uploads/ as the call found them;
\* albumids: the albums whose editedAt update has been issued and has not
\* completed; error: an unlink or the delete of the call has rejected.)

BulkInit ==
  /\ bd = IdleBulk
  /\ bdFiles = InitialFileRows
  /\ bdDisk = {f.name : f \in InitialFileRows}
  /\ bdEdited = {}

\* bulkDeleteFromDb(field, values, user) up to the select.
BulkDeleteCall(field, values, actor) ==
  /\ bd.pc \in {"idle", "returned"}
  /\ Cardinality(values) <= MAX_VARIABLES_CHUNK_SIZE
  /\ bd' = [IdleBulk EXCEPT !.pc = IF values = {} THEN "returned" ELSE "select",
                            !.field = field, !.values = values, !.actor = actor,
                            !.before = bdFiles, !.diskBefore = bdDisk,
                            !.albumids = bd.albumids]
  /\ UNCHANGED <<bdFiles, bdDisk, bdEdited>>
  /\ UNCHANGED notBulkVars

\* The select without the scope on the caller's id.
SelectRowsUnscoped(field, chunk, actor) ==
  {f \in bdFiles : FieldOf(f, field) \in chunk}

\* The select of one chunk: whereIn(field, chunk), and for a caller who is not
\* a moderator where('userid', user.id).
SelectRows(field, chunk, actor) ==
  {f \in bdFiles : /\ FieldOf(f, field) \in chunk
                   /\ (actor.moderator \/ f.userid = actor.id)}

\* The call after its last await of a chunk with nothing unlinked: the chunk
\* returns early, unlinkeds is empty and failed is returned.
\* Otherwise the rows are deleted next.
AfterUnlinks(b) ==
  IF b.pending = {}
    THEN [b EXCEPT !.pc = IF b.unlinked = {} THEN "returned" ELSE "delete"]
    ELSE b

\* The select returned: the values without a row go to failed, the rows found
\* are unlinked next.
BulkSelectDone ==
  /\ bd.pc = "select"
  /\ LET rows == SelectRows(bd.field, bd.values, bd.actor) IN
       bd' = AfterUnlinks(
               [bd EXCEPT !.pc = "unlink", !.pending = rows,
                          !.failed = {v \in bd.values :
                                        ~\E f \in rows : FieldOf(f, bd.field) = v}])
  /\ UNCHANGED <<bdFiles, bdDisk, bdEdited>>
  /\ UNCHANGED notBulkVars

\* self.unlinkFile(file.name) resolves: the file is gone, the row is pushed to
\* unlinked.
BulkUnlinkOk(f) ==
  /\ bd.pc = "unlink"
  /\ f \in bd.pending
  /\ bdDisk' = bdDisk \ {f.name}
  /\ bd' = AfterUnlinks([bd EXCEPT !.pending = @ \ {f}, !.unlinked = @ \cup {f}])
  /\ UNCHANGED <<bdFiles, bdEdited>>
  /\ UNCHANGED notBulkVars

\* self.unlinkFile(file.name) rejects: the value goes to failed.
BulkUnlinkFail(f) ==
  /\ bd.pc = "unlink"
  /\ f \in bd.pending
  /\ bd' = AfterUnlinks([bd EXCEPT !.pending = @ \ {f}, !.error = TRUE,
                                   !.failed = @ \cup {FieldOf(f, bd.field)}])
  /\ UNCHANGED <<bdFiles, bdDisk, bdEdited>>
  /\ UNCHANGED notBulkVars

\* The delete of the unlinked rows resolves; the albums of the deleted rows
\* are collected, their editedAt update is issued (not awaited) and failed is
\* returned.
BulkDeleteRowsDone ==
  /\ bd.pc = "delete"
  /\ bdFiles' = {f \in bdFiles : f.id \notin {u.id : u \in bd.unlinked}}
  /\ bd' = [bd EXCEPT !.pc = "returned",
                      !.albumids = @ \cup {u.albumid : u \in {x \in bd.unlinked : x.albumid # 0}}]
  /\ UNCHANGED <<bdDisk, bdEdited>>
  /\ UNCHANGED notBulkVars

\* The delete rejects: the catch around the whole call logs the error and
\* failed is returned as it stands.
BulkDeleteRowsError ==
  /\ bd.pc = "delete"
  /\ bd' = [bd EXCEPT !.pc = "returned", !.error = TRUE]
  /\ UNCHANGED <<bdFiles, bdDisk, bdEdited>>
  /\ UNCHANGED notBulkVars

\* The editedAt update of the touched albums, issued without await, completes.
BulkAlbumsUpdated ==
  /\ bd.albumids # {}
  /\ bdEdited' = bdEdited \cup bd.albumids
  /\ bd' = [bd EXCEPT !.albumids = {}]
  /\ UNCHANGED <<bdFiles, bdDisk>>
  /\ UNCHANGED notBulkVars

BulkNext ==
  \/ \E field \in {"id", "name"}, actor \in Actors :
       \E values \in SUBSET BulkValues(field) : BulkDeleteCall(field, values, actor)
  \/ BulkSelectDone
  \/ \E f \in bd.pending : BulkUnlinkOk(f)
  \/ \E f \in bd.pending : BulkUnlinkFail(f)
  \/ BulkDeleteRowsDone
  \/ BulkDeleteRowsError
  \/ BulkAlbumsUpdated

(***************************************************************************)
(* Album ZIP generator                                                     *)
(***************************************************************************)

\* Model bounds.
NumZipReqs == 2
MaxTime == 2
MaxAlbumFiles == 1

ZipReqs == 1..NumZipReqs

\* seen: the flags of the album row the request went on with.
IdleZipReq ==
  [pc |-> "idle", v |-> TRUE, role |-> "none", build |-> 0, served |-> 0,
   seen |-> [enabled |-> FALSE, public |-> FALSE, download |-> FALSE],
   stale |-> FALSE]
\* (stale: the archive the request is served without a rebuild held the files
\* of the album neither when the request read the album row nor when the
\* archive was served.)

\* A request that ended without an archive: pc is "rejected" (a ClientError),
\* "error" (a ServerError) or "redirected".
ZipReqEnded(pc) == [IdleZipReq EXCEPT !.pc = pc]

NoZipFile == [state |-> "absent", by |-> 0, members |-> 0]

\* albums.create inserts enabled = 1, editedAt = 0 and zipGeneratedAt = 0;
\* public and download are what the owner chose.
ZipInit ==
  /\ album \in [enabled : {TRUE}, public : BOOLEAN, download : BOOLEAN,
                editedAt : {0}, zipGeneratedAt : {0}]
  /\ albumFiles = 0
  /\ zipEmitters = FALSE
  /\ zipFile = NoZipFile
  /\ builds = 0
  /\ zreq = [r \in ZipReqs |-> IdleZipReq]
  /\ now = 1
  /\ changedSince = FALSE

ZipBuilding(r) == zreq[r].pc \in {"files", "archive", "update", "resultstat"}

\* The clock reaches the next whole second.
Tick ==
  /\ now < MaxTime
  /\ now' = now + 1
  /\ UNCHANGED <<album, albumFiles, zipEmitters, zipFile, builds, zreq, changedSince>>
  /\ UNCHANGED notZipVars

\* The album's file set changes (an upload into the album, addFiles, a bulk
\* delete): editedAt = Math.floor(Date.now() / 1000).
AlbumFilesChange(n) ==
  /\ n \in 0..MaxAlbumFiles
  /\ n # albumFiles
  /\ albumFiles' = n
  /\ album' = [album EXCEPT !.editedAt = now]
  /\ changedSince' = TRUE
  /\ UNCHANGED <<zipEmitters, zipFile, builds, zreq, now>>
  /\ UNCHANGED notZipVars

\* albums.disable by the owner or a moderator: enabled = 0, and the archive is
\* removed from zips/.
AlbumDisable ==
  /\ album.enabled
  /\ album' = [album EXCEPT !.enabled = FALSE]
  /\ zipFile' = NoZipFile
  /\ changedSince' = TRUE
  /\ UNCHANGED <<albumFiles, zipEmitters, builds, zreq, now>>
  /\ UNCHANGED notZipVars

\* albums.edit by a moderator with enabled set: the album is enabled again.
\* The update does not touch editedAt.  (public and download stay as the
\* album's owner last set them.)
AlbumEnable ==
  /\ ~album.enabled
  /\ album' = [album EXCEPT !.enabled = TRUE]
  /\ changedSince' = TRUE
  /\ UNCHANGED <<albumFiles, zipEmitters, zipFile, builds, zreq, now>>
  /\ UNCHANGED notZipVars

\* GET album/zip/<identifier>: generateZip up to the query of the album row.
\* Requests are numbered in the order they arrive; v is whether the query
\* string has the v parameter.
ZipRequest(r, v) ==
  /\ zreq[r].pc = "idle"
  /\ \A q \in ZipReqs : q < r => zreq[q].pc # "idle"
  /\ zreq' = [zreq EXCEPT ![r] = [IdleZipReq EXCEPT !.pc = "album", !.v = v]]
  /\ UNCHANGED <<album, albumFiles, zipEmitters, zipFile, builds, now, changedSince>>
  /\ UNCHANGED notZipVars

\* The checks generateZip makes on the album row it queried with
\* where({ identifier, enabled: 1 }): no row is 404, download = 0 is 403.
ZipAlbumAllowed(a) == a.enabled /\ a.download

\* A map that never reports an emitter.
HasNoZipEmitter == FALSE

\* self.zipEmitters.has(identifier)
HasZipEmitter == zipEmitters

\* generateZip from "If EventEmitter already exists" on: wait for the emitter
\* of the running build, or create the emitter and start the build (up to the
\* query of the album's files).
ZipJoinOrBuild(r, seen) ==
  IF HasZipEmitter
    THEN /\ zreq' = [zreq EXCEPT ![r].pc = "waiting", ![r].role = "waiter",
                                 ![r].v = TRUE, ![r].build = builds,
                                 ![r].seen = seen]
         /\ UNCHANGED <<zipEmitters, builds, changedSince>>
    ELSE /\ zipEmitters' = TRUE
         /\ builds' = builds + 1
         /\ changedSince' = FALSE
         /\ zreq' = [zreq EXCEPT ![r].pc = "files", ![r].role = "builder",
                                 ![r].v = TRUE, ![r].build = builds + 1,
                                 ![r].seen = seen]

\* The album row arrived.
ZipAlbumLoaded(r) ==
  /\ zreq[r].pc = "album"
  /\ LET seen == [enabled |-> album.enabled, public |-> album.public,
                  download |-> album.download] IN
     IF ~ZipAlbumAllowed(album)
       THEN /\ zreq' = [zreq EXCEPT ![r] = ZipReqEnded("rejected")]
            /\ UNCHANGED <<zipEmitters, builds, changedSince>>
       ELSE IF ~zreq[r].v /\ album.editedAt # 0
         THEN /\ zreq' = [zreq EXCEPT ![r] = ZipReqEnded("redirected")]
              /\ UNCHANGED <<zipEmitters, builds, changedSince>>
         ELSE IF album.zipGeneratedAt > album.editedAt
           THEN /\ zreq' = [zreq EXCEPT ![r].pc = "stat", ![r].v = TRUE,
                                        ![r].seen = seen,
                                        ![r].stale = (zipFile.members # albumFiles)]
                /\ UNCHANGED <<zipEmitters, builds, changedSince>>
           ELSE ZipJoinOrBuild(r, seen)
  /\ UNCHANGED <<album, albumFiles, zipFile, now>>
  /\ UNCHANGED notZipVars

\* fsPromises.stat of the existing archive resolves: the file is served.
ZipStatOk(r) ==
  /\ zreq[r].pc = "stat"
  /\ zipFile.state # "absent"
  /\ zreq' = [zreq EXCEPT ![r].pc = "served", ![r].role = "cached",
                          ![r].served = zipFile.by,
                          ![r].stale = (@ /\ zipFile.members # albumFiles)]
  /\ UNCHANGED <<album, albumFiles, zipEmitters, zipFile, builds, now, changedSince>>
  /\ UNCHANGED notZipVars

\* fsPromises.stat rejects with ENOENT: the archive is built (or awaited).
ZipStatMissing(r) ==
  /\ zreq[r].pc = "stat"
  /\ zipFile.state = "absent"
  /\ ZipJoinOrBuild(r, zreq[r].seen)
  /\ UNCHANGED <<album, albumFiles, zipFile, now>>
  /\ UNCHANGED notZipVars

\* emit('done', result): the once('done') listener of the ZipEmitter deletes
\* the map entry, and every waiter's promise settles: with the result it
\* serves result.path, without one it is rejected.
EmitDone(r, ok) ==
  /\ zipEmitters' = FALSE
  /\ zreq' = [q \in ZipReqs |->
               IF q = r
                 THEN IF ok THEN [zreq[q] EXCEPT !.pc = "served", !.served = zipFile.by]
                            ELSE ZipReqEnded("rejected")
                 ELSE IF zreq[q].pc = "waiting"
                   THEN IF ok THEN [zreq[q] EXCEPT !.pc = "served", !.served = zipFile.by]
                              ELSE ZipReqEnded("error")
                   ELSE zreq[q]]

\* The query of the album's files returned no file: the archive is removed,
\* 'done' is emitted with a ClientError and the error is thrown.  The same
\* happens, without the removal, when the total size exceeds zipMaxTotalSize.
ZipNoFiles(r) ==
  /\ zreq[r].pc = "files"
  /\ albumFiles = 0
  /\ zipFile' = NoZipFile
  /\ EmitDone(r, FALSE)
  /\ UNCHANGED <<album, albumFiles, builds, now, changedSince>>
  /\ UNCHANGED notZipVars

ZipSizeExceeds(r) ==
  /\ zreq[r].pc = "files"
  /\ albumFiles > 0
  /\ EmitDone(r, FALSE)
  /\ UNCHANGED <<album, albumFiles, zipFile, builds, now, changedSince>>
  /\ UNCHANGED notZipVars

\* The files arrived: the archive's members are added and
\* jetpack.createWriteStream(zipPath) starts overwriting the archive.
ZipFilesLoaded(r) ==
  /\ zreq[r].pc = "files"
  /\ albumFiles > 0
  /\ zipFile' = [state |-> "partial", by |-> zreq[r].build, members |-> albumFiles]
  /\ zreq' = [zreq EXCEPT ![r].pc = "archive"]
  /\ UNCHANGED <<album, albumFiles, zipEmitters, builds, now, changedSince>>
  /\ UNCHANGED notZipVars

\* A step of the build rejects (the query of the files, the archive stream,
\* the zipGeneratedAt update, the stat of the result): generateZip throws.
ZipBuildError(r) ==
  /\ ZipBuilding(r)
  /\ zreq' = [zreq EXCEPT ![r] = ZipReqEnded("error")]
  /\ UNCHANGED <<album, albumFiles, zipEmitters, zipFile, builds, now, changedSince>>
  /\ UNCHANGED notZipVars

\* The archive stream emits 'finish'.  (An archive unlinked while it was
\* written stays absent.)
ZipArchiveDone(r) ==
  /\ zreq[r].pc = "archive"
  /\ zipFile' = IF zipFile.state = "absent" THEN zipFile
                ELSE [zipFile EXCEPT !.state = "complete", !.by = zreq[r].build]
  /\ zreq' = [zreq EXCEPT ![r].pc = "update"]
  /\ UNCHANGED <<album, albumFiles, zipEmitters, builds, now, changedSince>>
  /\ UNCHANGED notZipVars

\* An update that leaves zipGeneratedAt as it was.
ZipGeneratedAtKept(a) == a

\* update('zipGeneratedAt', Math.floor(Date.now() / 1000))
ZipGeneratedAtUpdate(a) == [a EXCEPT !.zipGeneratedAt = now]

ZipUpdateDone(r) ==
  /\ zreq[r].pc = "update"
  /\ album' = ZipGeneratedAtUpdate(album)
  /\ zreq' = [zreq EXCEPT ![r].pc = "resultstat"]
  /\ UNCHANGED <<albumFiles, zipEmitters, zipFile, builds, now, changedSince>>
  /\ UNCHANGED notZipVars

\* The stat of the result resolves: 'done' is emitted with the result and the
\* archive is streamed.
ZipResultStat(r) ==
  /\ zreq[r].pc = "resultstat"
  /\ zipFile.state # "absent"
  /\ EmitDone(r, TRUE)
  /\ UNCHANGED <<album, albumFiles, zipFile, builds, now, changedSince>>
  /\ UNCHANGED notZipVars

ZipNext ==
  \/ Tick
  \/ \E n \in 0..MaxAlbumFiles : AlbumFilesChange(n)
  \/ AlbumDisable
  \/ AlbumEnable
  \/ \E r \in ZipReqs, v \in BOOLEAN : ZipRequest(r, v)
  \/ \E r \in ZipReqs : ZipAlbumLoaded(r)
  \/ \E r \in ZipReqs : ZipStatOk(r)
  \/ \E r \in ZipReqs : ZipStatMissing(r)
  \/ \E r \in ZipReqs : ZipNoFiles(r)
  \/ \E r \in ZipReqs : ZipSizeExceeds(r)
  \/ \E r \in ZipReqs : ZipFilesLoaded(r)
  \/ \E r \in ZipReqs : ZipBuildError(r)
  \/ \E r \in ZipReqs : ZipArchiveDone(r)
  \/ \E r \in ZipReqs : ZipUpdateDone(r)
  \/ \E r \in ZipReqs : ZipResultStat(r)

(***************************************************************************)
(* Retention sweeper                                                       *)
(***************************************************************************)

\* Model bound: the ticks of the interval timer that may be pending at once.
NumSweepTicks == 2

SweepTicks == 1..NumSweepTicks

\* const sudo = { username: 'root' }, for whom perms.is(user, 'moderator')
\* holds.
Sudo == [id |-> 0, moderator |-> TRUE]

\* temporaryUploadsInProgress = false and no call of temporaryUploadCheck is
\* pending.  last is how the last call that returned ended, timestamp the
\* Date.now() / 1000 of the last call that ran bulkDeleteExpired.
SweepInit ==
  sweep = [inProgress |-> FALSE, last |-> "none", timestamp |-> 0,
           pc |-> [k \in SweepTicks |-> "idle"]]

\* The calls are numbered in the order the timer makes them.
SweepArrivesNext(k) ==
  /\ sweep.pc[k] = "idle"
  /\ \A j \in SweepTicks : j < k => sweep.pc[j] # "idle"

\* if (temporaryUploadsInProgress) return
SweepNeverSkipped(inProgress) == FALSE
SweepSkipped(inProgress) == inProgress

\* setInterval calls temporaryUploadCheck: it returns at once when a sweep is
\* in progress, and otherwise sets the flag and calls bulkDeleteExpired, which
\* takes the timestamp and issues the select.
SweepTick(k) ==
  /\ SweepArrivesNext(k)
  /\ sweep' = IF SweepSkipped(sweep.inProgress)
                THEN [sweep EXCEPT !.last = "skipped"]
                ELSE [sweep EXCEPT !.inProgress = TRUE, !.timestamp = now,
                                   !.pc[k] = "select"]
  /\ UNCHANGED <<bulkVars, notSweepVars>>

\* where('expirydate', '<', timestamp)
ExpiredBefore(rows, timestamp) ==
  {f \in rows : f.expirydate # 0 /\ f.expirydate < timestamp}

\* where('expirydate', '<=', timestamp): a NULL expirydate matches nothing.
Expired(rows, timestamp) ==
  {f \in rows : f.expirydate # 0 /\ f.expirydate <= timestamp}

\* The select of bulkDeleteExpired resolves, and bulkDeleteFromDb('id',
\* values, sudo) is called with the ids of the expired rows.
SweepSelectDone(k) ==
  /\ sweep.pc[k] = "select"
  /\ bd.pc \in {"idle", "returned"}
  /\ LET values == {f.id : f \in Expired(bdFiles, sweep.timestamp)} IN
       bd' = [IdleBulk EXCEPT !.pc = IF values = {} THEN "returned" ELSE "select",
                              !.field = "id", !.values = values, !.actor = Sudo,
                              !.before = bdFiles, !.diskBefore = bdDisk,
                              !.albumids = bd.albumids]
  /\ sweep' = [sweep EXCEPT !.pc[k] = "delete"]
  /\ UNCHANGED <<bdFiles, bdDisk, bdEdited, notSweepVars>>

\* The select rejects: the catch of temporaryUploadCheck logs the error and
\* the flag is cleared.
SweepSelectError(k) ==
  /\ sweep.pc[k] = "select"
  /\ sweep' = [sweep EXCEPT !.inProgress = FALSE, !.last = "threw",
                            !.pc[k] = "idle"]
  /\ UNCHANGED <<bulkVars, notSweepVars>>

\* bulkDeleteFromDb has returned its failed list: the result is logged and
\* the flag is cleared.
SweepReturn(k) ==
  /\ sweep.pc[k] = "delete"
  /\ bd.pc = "returned"
  /\ sweep' = [sweep EXCEPT !.inProgress = FALSE, !.last = "done",
                            !.pc[k] = "idle"]
  /\ UNCHANGED <<bulkVars, notSweepVars>>

SweepNext ==
  \/ \E k \in SweepTicks : SweepTick(k)
  \/ \E k \in SweepTicks : SweepSelectDone(k)
  \/ \E k \in SweepTicks : SweepSelectError(k)
  \/ \E k \in SweepTicks : SweepReturn(k)
  \/ BulkSelectDone
  \/ \E f \in bd.pending : BulkUnlinkOk(f)
  \/ \E f \in bd.pending : BulkUnlinkFail(f)
  \/ BulkDeleteRowsDone
  \/ BulkDeleteRowsError
  \/ BulkAlbumsUpdated
  \/ Tick

(***************************************************************************)
(* Upload list                                                             *)
(***************************************************************************)

\* Thresholds for regular users.
MAX_WILDCARDS_IN_KEY == 2
MAX_TEXT_QUERIES == 3
MAX_SORT_KEYS == 1
MAX_IS_KEYS == 1

\* .limit(25)
PageSize == 25

\* Model bound: the terms of one filters header.
MaxTerms == 4

\* The callers: a regular user and a moderator.
ListUsers == {[id |-> 1, moderator |-> FALSE], [id |-> 3, moderator |-> TRUE]}

\* Table users: username -> id.
UserIds == [u1 |-> 1, u2 |-> 2, u3 |-> 3]

\* Table files.  A name is a sequence of characters whose last one may be an
\* extension, original is taken equal to name, and 0 stands for NULL.
ListFiles ==
  { [id |-> 1, name |-> <<"a", ".png">>, userid |-> 1, ip |-> "ip1", albumid |-> 1],
    [id |-> 2, name |-> <<"b", ".mp4">>, userid |-> 2, ip |-> "ip2", albumid |-> 0],
    [id |-> 3, name |-> <<"a", "b">>, userid |-> 0, ip |-> "ip2", albumid |-> 0],
    [id |-> 4, name |-> <<"b", ".png">>, userid |-> 3, ip |-> "ip1", albumid |-> 2] }

\* utils.imageExts, utils.videoExts, utils.audioExts
TypeExts == [image |-> {".png"}, video |-> {".mp4"}, audio |-> {".mp3"}]

\* filterObj.typeIs
typeIs == <<"image", "video", "audio">>

\* The terms a filters header of the model is made of, as searchQuery.parse
\* tokenizes them: key:value, -key:value, or a bare word (key "text").  The
\* value of a bare word is its characters.
Terms ==
  << [key |-> "text", exclude |-> FALSE, value |-> <<"a">>],
     [key |-> "text", exclude |-> FALSE, value |-> <<"*", "?", "*">>],
     [key |-> "text", exclude |-> FALSE, value |-> <<"\\", "*", "*", "?">>],
     [key |-> "text", exclude |-> TRUE, value |-> <<"b">>],
     [key |-> "sort", exclude |-> FALSE, value |-> <<"name">>],
     [key |-> "sort", exclude |-> FALSE, value |-> <<"ip">>],
     [key |-> "is", exclude |-> FALSE, value |-> <<"image">>],
     [key |-> "is", exclude |-> FALSE, value |-> <<"video">>],
     [key |-> "is", exclude |-> FALSE, value |-> <<"gif">>],
     [key |-> "is", exclude |-> TRUE, value |-> <<"image">>],
     [key |-> "user", exclude |-> FALSE, value |-> <<"u2">>],
     [key |-> "ip", exclude |-> FALSE, value |-> <<"ip2">>],
     [key |-> "albumid", exclude |-> FALSE, value |-> <<"-">>] >>

\* The filters headers of the model: up to MaxTerms terms.  Terms of
\* different keys do not meet in the parse, so they are taken in one order.
Filters ==
  LET Indexes == UNION {[1..n -> 1..Len(Terms)] : n \in 0..MaxTerms} IN
  { [i \in DOMAIN s |-> Terms[s[i]]] :
      s \in {x \in Indexes : \A i \in 1..(Len(x) - 1) : x[i] <= x[i + 1]} }

\* No request is being answered.
IdleListReq ==
  [pc |-> "idle", user |-> 0, all |-> FALSE, albumid |-> 0, page |-> 0,
   filters |-> <<>>, status |-> 0, error |-> "", files |-> {}, ip |-> FALSE,
   sort |-> <<>>, keys |-> {}]

ListInit == lreq = IdleListReq

\* The keywords handed to searchQuery.parse: albumid unless one album is
\* listed, ip and user when all uploads are listed.
Keywords(all, albumid) ==
  {"is", "sort", "orderby"}
    \cup (IF albumid = 0 THEN {"albumid"} ELSE {})
    \cup (IF all THEN {"ip", "user"} ELSE {})

RECURSIVE SelectSeq2(_, _, _)
\* The values of the terms of filters that Test(term) holds for, in order.
SelectSeq2(filters, keywords, want) ==
  IF filters = <<>> THEN <<>>
  ELSE LET t == Head(filters)
           keyed == t.key \in keywords
           rest == SelectSeq2(Tail(filters), keywords, want)
       IN  IF want.exclude # t.exclude THEN rest
           ELSE IF want.key = "text" /\ ~keyed
                THEN <<IF t.key = "text" THEN t.value
                       ELSE <<t.key, ":">> \o t.value>> \o rest
           ELSE IF want.key = t.key /\ keyed THEN <<t.value[1]>> \o rest
           ELSE rest

\* searchQuery.parse: queries[key] and queries.exclude[key].  A term whose
\* key is not a keyword is a text term.
Queries(filters, keywords, key, exclude) ==
  SelectSeq2(filters, keywords, [key |-> key, exclude |-> exclude])

RECURSIVE Unique(_)
\* filter((v, i, a) => a.indexOf(v) === i)
Unique(s) ==
  IF s = <<>> THEN <<>>
  ELSE LET init == Unique(SubSeq(s, 1, Len(s) - 1))
           last == s[Len(s)]
       IN  IF \E i \in 1..Len(init) : init[i] = last THEN init
           ELSE Append(init, last)

\* A keyword's values after the NULL flag '-' is taken out of them.
WithoutDash(s) == SelectSeq(Unique(s), LAMBDA v : v # "-")

\* filterObj.flags[key + 'Null']: exclusion wins.
NullFlag(incl, excl) ==
  IF \E i \in 1..Len(excl) : excl[i] = "-" THEN "false"
  ELSE IF \E i \in 1..Len(incl) : incl[i] = "-" THEN "true"
  ELSE "unset"

RECURSIVE WildcardCount(_, _)
\* pattern.match(/(?<!\\)(\*|\?)/g).length
WildcardCount(pattern, prev) ==
  IF pattern = <<>> THEN 0
  ELSE (IF Head(pattern) \in {"*", "?"} /\ prev # "\\" THEN 1 ELSE 0)
         + WildcardCount(Tail(pattern), Head(pattern))

RECURSIVE GlobToSql(_, _)
\* Unescaped % and _ are escaped, unescaped * and ? become % and _.
GlobToSql(pattern, prev) ==
  IF pattern = <<>> THEN <<>>
  ELSE LET c == Head(pattern)
           out == IF prev = "\\" THEN <<c>>
                  ELSE IF c \in {"%", "_"} THEN <<"\\", c>>
                  ELSE IF c = "*" THEN <<"%">>
                  ELSE IF c = "?" THEN <<"_">>
                  ELSE <<c>>
       IN  out \o GlobToSql(Tail(pattern), c)

\* sqlLikeParser: a pattern without glob operator is a partial match.
sqlLikeParser(pattern) ==
  LET count == WildcardCount(pattern, "") IN
  [count |-> count,
   escaped |-> IF count > 0 THEN GlobToSql(pattern, "")
               ELSE <<"%">> \o GlobToSql(pattern, "") \o <<"%">>]

RECURSIVE Like(_, _)
\* column like pattern escape '\'
Like(pattern, s) ==
  IF pattern = <<>> THEN s = <<>>
  ELSE IF Head(pattern) = "%"
       THEN Like(Tail(pattern), s) \/ (s # <<>> /\ Like(pattern, Tail(s)))
  ELSE IF s = <<>> THEN FALSE
  ELSE IF Head(pattern) = "_" THEN Like(Tail(pattern), Tail(s))
  ELSE IF Head(pattern) = "\\" /\ Len(pattern) > 1
       THEN Head(s) = pattern[2] /\ Like(Tail(Tail(pattern)), Tail(s))
  ELSE Head(s) = Head(pattern) /\ Like(Tail(pattern), Tail(s))

Range(s) == {s[i] : i \in DOMAIN s}

\* The threshold checks: "if (!ismoderator && n > MAX)".
OverForAnyone(ismoderator, n, max) == n > max
Over(ismoderator, n, max) == ~ismoderator /\ n > max

\* The columns sorting is allowed by.
AllowedSort(all, albumid) ==
  {"expirydate", "id", "name", "original", "size", "timestamp"}
    \cup (IF albumid = 0 THEN {"albumid"} ELSE {})
    \cup (IF all THEN {"ip", "userid"} ELSE {})

\* The type-is keys of the filter: the types of typeIs found in is or in
\* exclude.is, with their flags (exclusion wins).
IsFlags(is, exclIs) ==
  [t \in {x \in Range(typeIs) : x \in Range(is) \/ x \in Range(exclIs)}
     |-> t \notin Range(exclIs)]

\* The filter as the handler parses it (filterObj, sortObj) and the
\* ClientError it throws on the way, "" for none.  The checks are made in the
\* order of the code.  (No filter of the model has a date or expiry range or
\* the orderby alias.)
ParseFilters(user, all, albumid, filters) ==
  LET keywords == Keywords(all, albumid)
      Q(key, exclude) == Queries(filters, keywords, key, exclude)
      text == Q("text", FALSE)
      exclText == Q("text", TRUE)
      usernames == WithoutDash(Q("user", FALSE)) \o WithoutDash(Q("user", TRUE))
      sort == WithoutDash(Q("sort", FALSE))
      flags == IsFlags(WithoutDash(Q("is", FALSE)), WithoutDash(Q("is", TRUE)))
      m == user.moderator
      error ==
        IF Over(m, Len(text) + Len(exclText), MAX_TEXT_QUERIES) THEN "text"
        ELSE IF \E i \in DOMAIN text :
                  Over(m, sqlLikeParser(text[i]).count, MAX_WILDCARDS_IN_KEY)
             THEN "wildcards"
        ELSE IF \E i \in DOMAIN exclText :
                  Over(m, sqlLikeParser(exclText[i]).count, MAX_WILDCARDS_IN_KEY)
             THEN "wildcards"
        ELSE IF \E u \in Range(usernames) : u \notin DOMAIN UserIds
             THEN "user"
        ELSE IF \E c \in Range(sort) : c \notin AllowedSort(all, albumid)
             THEN "column"
        ELSE IF Over(m, Len(sort), MAX_SORT_KEYS) THEN "sort"
        ELSE IF \E t1, t2 \in DOMAIN flags : flags[t1] # flags[t2] THEN "mix"
        ELSE IF Over(m, Cardinality(DOMAIN flags), MAX_IS_KEYS) THEN "is"
        ELSE ""
  IN  [error |-> error,
       text |-> [i \in DOMAIN text |-> sqlLikeParser(text[i]).escaped],
       exclText |-> [i \in DOMAIN exclText |-> sqlLikeParser(exclText[i]).escaped],
       uploaders |-> {UserIds[u] : u \in Range(WithoutDash(Q("user", FALSE)))},
       excludeUploaders |-> {UserIds[u] : u \in Range(WithoutDash(Q("user", TRUE)))},
       userNull |-> NullFlag(Unique(Q("user", FALSE)), Unique(Q("user", TRUE))),
       ip |-> Range(WithoutDash(Q("ip", FALSE))),
       exclIp |-> Range(WithoutDash(Q("ip", TRUE))),
       ipNull |-> NullFlag(Unique(Q("ip", FALSE)), Unique(Q("ip", TRUE))),
       albumid |-> Range(WithoutDash(Q("albumid", FALSE))),
       exclAlbumid |-> Range(WithoutDash(Q("albumid", TRUE))),
       albumidNull |-> NullFlag(Unique(Q("albumid", FALSE)), Unique(Q("albumid", TRUE))),
       sort |-> sort,
       flags |-> flags]

\* One group of filter(): whereNotIn / orWhereIn on a column and the NULL
\* flag.  "none" is a group without clause, which the query builder leaves
\* out.  (NULL is in no list and not in none.)
KeyGroup(value, isNull, incl, excl, null) ==
  LET Is(b) == IF b THEN "match" ELSE "miss" IN
  IF excl # {}
    THEN IF null # "false" THEN Is((~isNull /\ value \notin excl) \/ isNull)
         ELSE Is(~isNull /\ value \notin excl)
  ELSE IF incl # {}
    THEN IF null = "true" THEN Is(value \in incl \/ isNull)
         ELSE IF null = "false" THEN Is(value \in incl /\ ~isNull)
         ELSE Is(value \in incl)
  ELSE IF null = "true" THEN Is(isNull)
  ELSE IF null = "false" THEN Is(~isNull)
  ELSE "none"

\* The album ids among the values of an albumid key.
AlbumIds(values) == {a \in {1, 2} : ToString(a) \in values}

\* this.where('userid', user.id), without it.
OwnUploadsUnscoped(f, user) == TRUE
OwnUploads(f, user) == f.userid = user.id

\* filter(): does the row match.
filter(f, user, all, albumid, fo) ==
  LET byUser == KeyGroup(f.userid, f.userid = 0, fo.uploaders, fo.excludeUploaders,
                         fo.userNull)
      byIp == KeyGroup(f.ip, f.ip = "", fo.ip, fo.exclIp, fo.ipNull)
      byAlbum == KeyGroup(f.albumid, f.albumid = 0, AlbumIds(fo.albumid),
                          AlbumIds(fo.exclAlbumid), fo.albumidNull)
      likes(t) == \E ext \in TypeExts[t] : Like(<<"%", ext>>, f.name)
  IN  /\ IF all
           THEN \/ byUser = "none" /\ byIp = "none"
                \/ byUser = "match"
                \/ byIp = "match"
           ELSE OwnUploads(f, user)
      /\ IF albumid = 0 THEN byAlbum # "miss"
         ELSE all \/ f.albumid = albumid
      /\ \/ DOMAIN fo.flags = {}
         \/ /\ \E t \in DOMAIN fo.flags : fo.flags[t]
            /\ \E t \in DOMAIN fo.flags : likes(t)
         \/ /\ \A t \in DOMAIN fo.flags : ~fo.flags[t]
            /\ \A t \in DOMAIN fo.flags : ~likes(t)
      /\ fo.text # <<>> => \E i \in DOMAIN fo.text : Like(fo.text[i], f.name)
      /\ \A i \in DOMAIN fo.exclText : ~Like(fo.exclText[i], f.name)

\* The offset of the page: a negative page counts from the last one.
Offset(page, count) ==
  IF page < 0
    THEN LET fromLast == ((count + PageSize - 1) \div PageSize) + page
         IN  IF fromLast > 0 THEN fromLast ELSE 0
  ELSE page

\* self.list: the whole handler.  It only reads the tables, which no other
\* action of this specification writes, so its awaits are taken in one step.
List(user, all, albumid, page, filters) ==
  /\ LET req == [IdleListReq EXCEPT !.pc = "answered", !.user = user.id, !.all = all,
                                   !.albumid = albumid, !.page = page,
                                   !.filters = filters]
     IN  \E fo \in {ParseFilters(user, all, albumid, filters)} :
         \E rows \in {{f \in ListFiles : filter(f, user, all, albumid, fo)}} :
         LET count == Cardinality(rows) IN
         lreq' =
           IF all /\ ~user.moderator THEN [req EXCEPT !.status = 403]
           ELSE IF filters # <<>> /\ fo.error # ""
             THEN [req EXCEPT !.status = 400, !.error = fo.error]
           ELSE [req EXCEPT
                   !.status = 200,
                   !.files = IF PageSize * Offset(page, count) < count
                             THEN {f.id : f \in rows} ELSE {},
                   !.ip = all /\ count > 0 /\ PageSize * Offset(page, count) < count,
                   !.sort = fo.sort,
                   !.keys = {k \in {"user"} : fo.uploaders \cup fo.excludeUploaders # {}}
                              \cup {k \in {"ip"} : fo.ip \cup fo.exclIp # {}}]
  /\ UNCHANGED notListVars

\* The response has been sent.
ListEnd ==
  /\ lreq.pc = "answered"
  /\ lreq' = IdleListReq
  /\ UNCHANGED notListVars

\* A request arrives when the last one has been answered.
ListRequest ==
  /\ lreq.pc = "idle"
  /\ \E user \in ListUsers, all \in BOOLEAN, albumid \in {0, 1}, page \in {-1, 0, 1} :
       \E filters \in Filters : List(user, all, albumid, page, filters)

ListNext ==
  \/ ListRequest
  \/ ListEnd

(***************************************************************************)
(* Album API                                                               *)
(***************************************************************************)

\* Model bounds: the album requests in flight, and the rows of table albums.
NumAlbumReqs == 2
MaxAlbums == 2

AlbumReqs == 1..NumAlbumReqs
AlbumRowIds == 1..MaxAlbums

\* req.locals.user: a regular user, who creates the albums, and a moderator.
AlbumOwner == [id |-> 1, moderator |-> FALSE]
AlbumCallers == {AlbumOwner, [id |-> 3, moderator |-> TRUE]}

\* req.body.name after trim, substring and escape.
AlbumNames == {"a", "b"}

\* No row of this id.  behind: a mutation of the row through the album API
\* succeeded at a time later than its editedAt; decreased: an update has
\* lowered its editedAt.
NoAlbum ==
  [present |-> FALSE, userid |-> 0, name |-> "", enabled |-> FALSE, editedAt |-> 0,
   behind |-> FALSE, decreased |-> FALSE]

IdleAlbumReq ==
  [pc |-> "idle", user |-> AlbumOwner, id |-> 0, name |-> "", newState |-> "null",
   wasEnabled |-> FALSE]

AlbumsInit ==
  /\ albums = [id \in AlbumRowIds |-> NoAlbum]
  /\ areq = [r \in AlbumReqs |-> IdleAlbumReq]

\* Requests are numbered in the order they arrive.
AlbumReqArrivesNext(r) ==
  /\ areq[r].pc = "idle"
  /\ \A q \in AlbumReqs : q < r => areq[q].pc # "idle"

\* where({ name, enabled: 1, userid }) [.whereNot('id', id)] .first()
NameInUse(name, userid, id) ==
  \E a \in AlbumRowIds :
    /\ albums[a].present
    /\ albums[a].name = name
    /\ albums[a].enabled
    /\ albums[a].userid = userid
    /\ a # id

\* create up to its insert: the name is looked up among the caller's enabled
\* albums, and a ClientError ends the request when it is found.
AlbumsCreate(r, name) ==
  /\ AlbumReqArrivesNext(r)
  /\ ~NameInUse(name, AlbumOwner.id, 0)
  /\ areq' = [areq EXCEPT ![r] = [IdleAlbumReq EXCEPT !.pc = "insert", !.name = name]]
  /\ UNCHANGED <<albums, now>>
  /\ UNCHANGED notAlbumVars

\* The insert of create: enabled: 1, editedAt: 0, under the next id.
AlbumsCreateInsert(r) ==
  /\ areq[r].pc = "insert"
  /\ \E id \in AlbumRowIds :
       /\ ~albums[id].present
       /\ \A a \in AlbumRowIds : a < id => albums[a].present
       /\ albums' = [albums EXCEPT ![id] =
                       [present |-> TRUE, userid |-> areq[r].user.id,
                        name |-> areq[r].name, enabled |-> TRUE, editedAt |-> 0,
                        behind |-> FALSE, decreased |-> FALSE]]
  /\ areq' = [areq EXCEPT ![r] = IdleAlbumReq]
  /\ UNCHANGED now
  /\ UNCHANGED notAlbumVars

\* The filter of edit and disable: the id, and for a caller who is not a
\* moderator enabled: 1 and the caller's userid.
AlbumFilter(id, user) ==
  /\ albums[id].present
  /\ user.moderator \/ (albums[id].enabled /\ albums[id].userid = user.id)

\* albumNewState: req.body.enabled of a moderator, else null.
albumNewState(user, enabled) ==
  IF user.moderator /\ enabled # "undefined" THEN enabled ELSE "null"

\* edit up to the query of the name: the album is looked up, a ClientError
\* ends the request when it is not found.  enabled is req.body.enabled.
AlbumsEdit(r, user, id, name, enabled) ==
  /\ AlbumReqArrivesNext(r)
  /\ AlbumFilter(id, user)
  /\ areq' = [areq EXCEPT ![r] =
                [pc |-> "nameInUse", user |-> user, id |-> id, name |-> name,
                 newState |-> albumNewState(user, enabled),
                 wasEnabled |-> albums[id].enabled]]
  /\ UNCHANGED <<albums, now>>
  /\ UNCHANGED notAlbumVars

\* The query nameInUse resolves: a ClientError ends the request when the
\* album is or becomes enabled and the name is in use.
AlbumsEditNameInUse(r) ==
  /\ areq[r].pc = "nameInUse"
  /\ areq' = [areq EXCEPT ![r] =
       IF /\ areq[r].wasEnabled \/ areq[r].newState = "true"
          /\ NameInUse(areq[r].name, areq[r].user.id, areq[r].id)
         THEN IdleAlbumReq
         ELSE [@ EXCEPT !.pc = "update"]]
  /\ UNCHANGED <<albums, now>>
  /\ UNCHANGED notAlbumVars

\* The update of edit, on the rows the filter still matches: name, download,
\* public, description, and enabled when albumNewState is not null.
AlbumsEditUpdate(r) ==
  /\ areq[r].pc = "update"
  /\ LET req == areq[r]
         new == req.newState
     IN  albums' = IF AlbumFilter(req.id, req.user)
                     THEN [albums EXCEPT ![req.id].name = req.name,
                                         ![req.id].enabled =
                                            IF new = "null" THEN @ ELSE new = "true",
                                         ![req.id].behind = albums[req.id].editedAt < now]
                     ELSE albums
  /\ areq' = [areq EXCEPT ![r] = IdleAlbumReq]
  /\ UNCHANGED now
  /\ UNCHANGED notAlbumVars

\* disable up to its update: the album is looked up, a ClientError ends the
\* request when it is not found.  (purge and del are not set.)
AlbumsDisable(r, user, id) ==
  /\ AlbumReqArrivesNext(r)
  /\ AlbumFilter(id, user)
  /\ areq' = [areq EXCEPT ![r] =
                [IdleAlbumReq EXCEPT !.pc = "disable", !.user = user, !.id = id]]
  /\ UNCHANGED <<albums, now>>
  /\ UNCHANGED notAlbumVars

\* update('enabled', 0) on the rows the filter still matches.
AlbumsDisableUpdate(r) ==
  /\ areq[r].pc = "disable"
  /\ LET req == areq[r] IN
     albums' = IF AlbumFilter(req.id, req.user)
                 THEN [albums EXCEPT ![req.id].enabled = FALSE,
                                     ![req.id].behind = albums[req.id].editedAt < now]
                 ELSE albums
  /\ areq' = [areq EXCEPT ![r] = IdleAlbumReq]
  /\ UNCHANGED now
  /\ UNCHANGED notAlbumVars

\* addFiles of the owner: update('editedAt', Math.floor(Date.now() / 1000))
\* of the album the files go to.
AlbumsAddFiles(id) ==
  /\ albums[id].present
  /\ albums[id].userid = AlbumOwner.id
  /\ albums' = [albums EXCEPT ![id].editedAt = now, ![id].behind = FALSE,
                              ![id].decreased = @ \/ now < albums[id].editedAt]
  /\ UNCHANGED <<areq, now>>
  /\ UNCHANGED notAlbumVars

\* Time passes.
AlbumsTick ==
  /\ now < MaxTime
  /\ now' = now + 1
  /\ UNCHANGED albumVars
  /\ UNCHANGED notAlbumVars

AlbumsNext ==
  \/ \E r \in AlbumReqs, name \in AlbumNames : AlbumsCreate(r, name)
  \/ \E r \in AlbumReqs : AlbumsCreateInsert(r)
  \/ \E r \in AlbumReqs, user \in AlbumCallers, id \in AlbumRowIds, name \in AlbumNames,
         enabled \in {"undefined", "true"} : AlbumsEdit(r, user, id, name, enabled)
  \/ \E r \in AlbumReqs : AlbumsEditNameInUse(r)
  \/ \E r \in AlbumReqs : AlbumsEditUpdate(r)
  \/ \E r \in AlbumReqs, user \in AlbumCallers, id \in AlbumRowIds :
       AlbumsDisable(r, user, id)
  \/ \E r \in AlbumReqs : AlbumsDisableUpdate(r)
  \/ \E id \in AlbumRowIds : AlbumsAddFiles(id)
  \/ AlbumsTick

(***************************************************************************)
(* Album deletion                                                          *)
(*                                                                         *)
(* self.delete and self.disable of the albums controller, over the file    *)
(* rows and the uploads directory of the bulk deleter, which the purge     *)
(* runs through.  One request is answered at a time.                       *)
(***************************************************************************)

\* The rows of table albums when the model starts: the two albums of the
\* initial file rows, both of user 1 and enabled, each with a ZIP on disk.
InitialAlbumRows ==
  [a \in {1, 2} |-> [present |-> TRUE, enabled |-> TRUE, userid |-> 1]]

IdleAlbumDel ==
  [pc |-> "idle", user |-> [id |-> 1, moderator |-> FALSE], id |-> 1,
   purge |-> FALSE, body |-> FALSE, del |-> FALSE, userid |-> 0, members |-> {},
   success |-> FALSE, failed |-> {}]
\* (body: req.body.del, TRUE for self.delete; del: the flag the handler acts
\* on; userid: album.userid of the row the request found; members: the file rows
\* the purge selected; success, failed: the answer.)

DelInit ==
  /\ adel = IdleAlbumDel
  /\ bdAlbums = InitialAlbumRows
  /\ bdZips = DOMAIN InitialAlbumRows

\* The filter of self.disable: the id, and for a caller who is not a moderator
\* enabled = 1 and userid = user.id.
DisableFilter(id, user) ==
  /\ bdAlbums[id].present
  /\ user.moderator \/ (bdAlbums[id].enabled /\ bdAlbums[id].userid = user.id)

\* self.delete (del = TRUE) or self.disable up to the answer of the album
\* query; del counts for a moderator only.  An album that is not found ends
\* the request with a ClientError.
AlbumDisableCall(user, id, purge, del) ==
  /\ adel.pc \in {"idle", "done"}
  /\ bd.pc \in {"idle", "returned"}
  /\ adel' = [IdleAlbumDel EXCEPT
               !.pc = IF ~DisableFilter(id, user) THEN "idle"
                      ELSE IF purge THEN "files" ELSE "remove",
               !.user = user, !.id = id, !.purge = purge, !.body = del,
               !.del = IF user.moderator THEN del ELSE FALSE,
               !.userid = bdAlbums[id].userid]
  /\ UNCHANGED <<bdAlbums, bdZips, bulkVars>>
  /\ UNCHANGED notDelVars

\* purge: the files of the album that belong to the album's owner are
\* selected and handed to bulkDeleteFromDb('id', ids, user).
AlbumPurgeSelect ==
  /\ adel.pc = "files"
  /\ \E rows \in {{f \in bdFiles : f.albumid = adel.id /\ f.userid = adel.userid}} :
       IF rows = {}
         THEN /\ adel' = [adel EXCEPT !.pc = "remove"]
              /\ UNCHANGED bd
         ELSE /\ adel' = [adel EXCEPT !.pc = "bulk", !.members = rows]
              /\ bd' = [IdleBulk EXCEPT !.pc = "select", !.field = "id",
                                        !.values = {f.id : f \in rows},
                                        !.actor = adel.user,
                                        !.before = bdFiles, !.diskBefore = bdDisk,
                                        !.albumids = bd.albumids]
  /\ UNCHANGED <<bdAlbums, bdZips, bdFiles, bdDisk, bdEdited>>
  /\ UNCHANGED notDelVars

\* bulkDeleteFromDb returned: with a value in failed the request answers
\* { success: false, failed } and leaves the album and its ZIP alone.
AlbumPurgeReturn ==
  /\ adel.pc = "bulk"
  /\ bd.pc = "returned"
  /\ adel' = IF bd.failed # {}
               THEN [adel EXCEPT !.pc = "done", !.failed = bd.failed]
               ELSE [adel EXCEPT !.pc = "remove"]
  /\ UNCHANGED <<bdAlbums, bdZips, bulkVars>>
  /\ UNCHANGED notDelVars

\* The album row is deleted (del) or its enabled flag is cleared; the file
\* rows are not touched.
AlbumRemoveRow ==
  /\ adel.pc = "remove"
  /\ bdAlbums' =
       IF ~DisableFilter(adel.id, adel.user) THEN bdAlbums
       ELSE IF adel.del
         THEN [bdAlbums EXCEPT ![adel.id].present = FALSE, ![adel.id].enabled = FALSE]
         ELSE [bdAlbums EXCEPT ![adel.id].enabled = FALSE]
  /\ adel' = [adel EXCEPT !.pc = "zip"]
  /\ UNCHANGED <<bdZips, bulkVars>>
  /\ UNCHANGED notDelVars

\* jetpack.removeAsync of the album's ZIP, then { success: true }.
AlbumZipRemove ==
  /\ adel.pc = "zip"
  /\ bdZips' = bdZips \ {adel.id}
  /\ adel' = [adel EXCEPT !.pc = "done", !.success = TRUE]
  /\ UNCHANGED <<bdAlbums, bulkVars>>
  /\ UNCHANGED notDelVars

AlbumDeleteNext ==
  \/ \E user \in Actors, id \in DOMAIN InitialAlbumRows, purge \in BOOLEAN, del \in BOOLEAN :
       AlbumDisableCall(user, id, purge, del)
  \/ AlbumPurgeSelect
  \/ BulkSelectDone
  \/ \E f \in bd.pending : BulkUnlinkOk(f)
  \/ \E f \in bd.pending : BulkUnlinkFail(f)
  \/ BulkDeleteRowsDone
  \/ BulkDeleteRowsError
  \/ BulkAlbumsUpdated
  \/ AlbumPurgeReturn
  \/ AlbumRemoveRow
  \/ AlbumZipRemove

(***************************************************************************)
(* User administration                                                     *)
(*                                                                         *)
(* editUser, disableUser and deleteUser of authController.js over table    *)
(* users.  The password column and the files and albums of a deleted user  *)
(* are left out: the model keeps the columns the permission checks read.   *)
(***************************************************************************)

NumUserReqs == 2

UserReqs == 1..NumUserReqs

\* perms.permissions of permissionController.js, the groups used here.
Permissions == [user |-> 0, admin |-> 80, superadmin |-> 100]

\* perms.is(user, group): the user's rank is the group's or higher; root
\* passes every check.
PermsIs(user, group) ==
  user.username = "root" \/ user.permission >= Permissions[group]

\* perms.higher(user, target)
PermsHigher(user, target) == user.permission > target.permission

\* Table users when the model starts: root as initDatabase creates it, a
\* second superadmin and a plain user.
RootId == 1

InitialUsers ==
  [i \in 1..3 |->
     [present |-> TRUE, enabled |-> TRUE,
      username |-> IF i = RootId THEN "root" ELSE IF i = 2 THEN "sa" ELSE "us",
      permission |-> IF i = 3 THEN Permissions.user ELSE Permissions.superadmin]]

UserRowIds == DOMAIN InitialUsers

\* req.body of editUser: "none" and -1 stand for a property that is undefined.
\* The bodies tried are the empty one and those that rename, disable, enable
\* or promote.
EditBodies ==
  { b \in [username : {"none", "root", "bob"}, enabled : {"none", "on", "off"},
           group : {"none", "superadmin"}] :
      Cardinality({b.username, b.enabled, b.group} \ {"none"}) <= 1 }

IdleUserReq ==
  [pc |-> "idle", caller |-> 0, id |-> 0, username |-> "none", enabled |-> "none",
   permission |-> -1, answer |-> "none"]
\* (username, enabled, permission: the update object; answer: "root" when the
\* last request of the slot was refused for the sake of root.)

UsersInit ==
  /\ users = InitialUsers
  /\ usreq = [r \in UserReqs |-> IdleUserReq]

\* Requests take the free slots in order.
UserReqArrivesNext(r) ==
  /\ usreq[r].pc = "idle"
  /\ \A q \in UserReqs : q < r => usreq[q].pc # "idle"

\* The request ends here with this answer; the caller and the target of a
\* request refused for the sake of root are kept.
UserReqEnded(caller, id, answer) ==
  IF answer = "root"
    THEN [IdleUserReq EXCEPT !.caller = caller, !.id = id, !.answer = answer]
    ELSE IdleUserReq

\* The checks got rid of: every target may be tampered with.
assertNothing(user, target) == "ok"

\* self.assertPermission(user, target): the ClientError thrown, or "ok".
assertPermission(user, target) ==
  IF target.username = "root" THEN "root"
  ELSE IF ~PermsHigher(user, target) THEN "rank"
  ELSE "ok"

\* How editUser and deleteUser answer before they write: 403 for a caller who
\* is not an admin, a ClientError for a missing target or a target the caller
\* may not tamper with.
UserGate(caller, id) ==
  IF ~PermsIs(users[caller], "admin") THEN "forbidden"
  ELSE IF ~users[id].present THEN "notfound"
  ELSE assertPermission(users[caller], users[id])

\* editUser up to the update: the caller is one of the enabled users, the
\* target is read and checked, and the update object is built from the body.
\* An unknown group keeps the target's permission.  disableUser is editUser
\* with the body re-mapped to { id, enabled: false }.
UserEdit(r, caller, id, body) ==
  /\ UserReqArrivesNext(r)
  /\ users[caller].present /\ users[caller].enabled
  /\ \E gate \in {UserGate(caller, id)} :
       usreq' = [usreq EXCEPT ![r] =
         IF gate # "ok" THEN UserReqEnded(caller, id, gate)
         ELSE IF body.username = "none" /\ body.enabled = "none" /\ body.group = "none"
           THEN UserReqEnded(caller, id, "nothing")
         ELSE [IdleUserReq EXCEPT
                 !.pc = "update", !.caller = caller, !.id = id,
                 !.username = body.username, !.enabled = body.enabled,
                 !.permission = IF body.group = "none" THEN -1
                                ELSE Permissions[body.group]]]
  /\ UNCHANGED users
  /\ UNCHANGED notUserVars

\* The update of the row where id = id resolves and the request is answered.
UserEditUpdate(r) ==
  /\ usreq[r].pc = "update"
  /\ \E req \in {usreq[r]} :
       /\ users' = [users EXCEPT ![req.id] =
            IF ~@.present THEN @
            ELSE [@ EXCEPT
                    !.username = IF req.username = "none" THEN @ ELSE req.username,
                    !.enabled = IF req.enabled = "none" THEN @ ELSE req.enabled = "on",
                    !.permission = IF req.permission = -1 THEN @ ELSE req.permission]]
       /\ usreq' = [usreq EXCEPT ![r] = UserReqEnded(req.caller, req.id, "ok")]
  /\ UNCHANGED notUserVars

\* deleteUser up to the select of the target's files.
UserDelete(r, caller, id) ==
  /\ UserReqArrivesNext(r)
  /\ users[caller].present /\ users[caller].enabled
  /\ \E gate \in {UserGate(caller, id)} :
       usreq' = [usreq EXCEPT ![r] =
         IF gate # "ok" THEN UserReqEnded(caller, id, gate)
         ELSE [IdleUserReq EXCEPT !.pc = "owned", !.caller = caller, !.id = id]]
  /\ UNCHANGED users
  /\ UNCHANGED notUserVars

\* The target's files are purged or released and its enabled albums are
\* deleted; a purge that returns failed values ends the request.
UserDeleteOwned(r, failed) ==
  /\ usreq[r].pc = "owned"
  /\ usreq' = [usreq EXCEPT ![r] =
       IF failed THEN UserReqEnded(@.caller, @.id, "failed")
       ELSE [@ EXCEPT !.pc = "del"]]
  /\ UNCHANGED users
  /\ UNCHANGED notUserVars

\* The row where id = id is deleted and the request is answered.
UserDeleteRow(r) ==
  /\ usreq[r].pc = "del"
  /\ users' = [users EXCEPT ![usreq[r].id].present = FALSE]
  /\ usreq' = [usreq EXCEPT ![r] = UserReqEnded(@.caller, @.id, "ok")]
  /\ UNCHANGED notUserVars

UsersNext ==
  \/ \E r \in UserReqs, caller \in UserRowIds, id \in UserRowIds, body \in EditBodies :
       UserEdit(r, caller, id, body)
  \/ \E r \in UserReqs : UserEditUpdate(r)
  \/ \E r \in UserReqs, caller \in UserRowIds, id \in UserRowIds : UserDelete(r, caller, id)
  \/ \E r \in UserReqs, failed \in BOOLEAN : UserDeleteOwned(r, failed)
  \/ \E r \in UserReqs : UserDeleteRow(r)

(***************************************************************************)
(* Ingest of a multipart upload                                            *)
(*                                                                         *)
(* One request with several file fields, from the first field to the       *)
(* response: actuallyUpload, scanFiles / assertPassthroughScans,           *)
(* storeFilesToDb and sendUploadResponse, with hashing enabled.  The table *)
(* holds earlier uploads when the request arrives.  The names of the       *)
(* staged files are taken as unique (the identifier allocator above sees   *)
(* to that): field i of the request is staged as <<1, i>>, the earlier     *)
(* uploads are <<0, i>>.                                                   *)
(***************************************************************************)

\* Model bound: the file fields of the request.
MaxIngestFiles == 2

\* Table albums as the ingest sees it: album id -> userid of its owner.
IngestAlbumOwners == [a \in {1, 2} |-> a]

\* Table files when the model starts: one upload of user 1 and one anonymous
\* upload, both of the bytes c1 and in no album.
IngestInitialRows ==
  { [name |-> <<0, 1>>, userid |-> 1, albumid |-> 0, content |-> "c1"],
    [name |-> <<0, 2>>, userid |-> Anonymous, albumid |-> 0, content |-> "c1"] }

\* The file fields of a request, in the order of the wire: their bytes.
IngestFields ==
  UNION {[1..k -> Contents] : k \in 1..MaxIngestFiles}

IdleIngest ==
  [pc |-> "idle", n |-> 0, user |-> Anonymous, albumid |-> 0, scan |-> "off",
   fields |-> <<>>, written |-> 0, verdict |-> <<>>, looked |-> {},
   files |-> <<>>, exists |-> <<>>, authorizedIds |-> {}, inserted |-> FALSE,
   unlinking |-> {}, logged |-> {}, outcome |-> "none", response |-> <<>>]
\* (n: 1 once the request has arrived; scan: "off" without a scanner or when the user
\* or every file is exempt from the scan, else "on"; written: the fields staged
\* so far;
\* verdict: what the scanner said of each field; looked: the fields whose
\* duplicate lookup has resolved; files, exists: the arrays of storeFilesToDb,
\* as field numbers; unlinking: the unlinks issued without waiting and not yet
\* settled, logged: the names whose unlink rejected, which is only logged;
\* response: the field numbers of the entries of the response, in its order.)

IngestInit ==
  /\ ingest = IdleIngest
  /\ igFiles = IngestInitialRows
  /\ igDisk = {f.name : f \in IngestInitialRows}
  /\ igEditedAt = [a \in DOMAIN IngestAlbumOwners |-> 0]

\* The names the request has put into req.files so far.
Staged(g) == {<<g.n, i>> : i \in 1..g.written}

\* The request has been answered.
IngestEnded(g, outcome) == [g EXCEPT !.pc = "done", !.outcome = outcome]

\* Unlink temp files (do not wait), then fail.
IngestFailed(g, names, outcome) ==
  IngestEnded([g EXCEPT !.unlinking = names], outcome)

\* self.upload and the start of actuallyUpload: the user of the token, the
\* albumid header and the file fields to come.
IngestCall(user, albumid, scan, fields) ==
  /\ ingest.pc = "idle"
  /\ ingest' = [IdleIngest EXCEPT !.pc = "write", !.n = 1, !.user = user,
                                  !.albumid = albumid, !.scan = scan, !.fields = fields]
  /\ UNCHANGED <<igFiles, igDisk, igEditedAt>>
  /\ UNCHANGED notIngestVars

\* The next file field has been written to uploads/ in full (the promise of
\* the field resolves on the finish of the write stream).
IngestFieldWritten ==
  /\ ingest.pc = "write"
  /\ \E i \in {ingest.written + 1} :
       /\ igDisk' = igDisk \cup {<<ingest.n, i>>}
       /\ ingest' = [ingest EXCEPT
            !.written = i,
            !.pc = IF i < Len(ingest.fields) THEN "write"
                   ELSE IF ingest.scan = "on" THEN "scan" ELSE "lookup"]
  /\ UNCHANGED <<igFiles, igEditedAt>>
  /\ UNCHANGED notIngestVars

\* The next file field fails while it is written (a stream error, a dropped
\* connection, an empty file): what was written of it stays on disk, the
\* unlink of every file of req.files is issued and the request fails.
IngestFieldError ==
  /\ ingest.pc = "write"
  /\ \E i \in {ingest.written + 1} :
       /\ igDisk' = igDisk \cup {<<ingest.n, i>>}
       /\ ingest' = IngestFailed([ingest EXCEPT !.written = i],
                                 {<<ingest.n, j>> : j \in 1..i}, "write")
  /\ UNCHANGED <<igFiles, igEditedAt>>
  /\ UNCHANGED notIngestVars

\* The verdicts of the scanner: isInfected true, null (unable to scan) or false.
Verdicts == {"clean", "infected", "unable"}

\* Only a threat fails the scan.
ScanResultThreatsOnly(verdict) ==
  \E i \in DOMAIN verdict : verdict[i] = "infected"

\* scanResult of scanFiles / assertPassthroughScans is not empty: a threat
\* was found or a file could not be scanned.
ScanResult(verdict) ==
  \/ \E i \in DOMAIN verdict : verdict[i] = "infected"
  \/ \E i \in DOMAIN verdict : verdict[i] = "unable"

\* The scan of the files of the request has resolved.  With a result the
\* unlink of every file is issued, without waiting, and a ClientError is
\* thrown.
IngestScanDone(verdict) ==
  /\ ingest.pc = "scan"
  /\ DOMAIN verdict = DOMAIN ingest.fields
  /\ ingest' = IF ScanResult(verdict)
                 THEN IngestFailed([ingest EXCEPT !.verdict = verdict], Staged(ingest), "scan")
                 ELSE [ingest EXCEPT !.pc = "lookup", !.verdict = verdict]
  /\ UNCHANGED <<igFiles, igDisk, igEditedAt>>
  /\ UNCHANGED notIngestVars

\* The scan itself rejects: scanFiles answers with an error text of its own,
\* the unlink of every file is issued and a ClientError is thrown.
IngestScanError ==
  /\ ingest.pc = "scan"
  /\ ingest' = IngestFailed(ingest, Staged(ingest), "scan")
  /\ UNCHANGED <<igFiles, igDisk, igEditedAt>>
  /\ UNCHANGED notIngestVars

\* An unlink issued without waiting settles: the file is gone, or the error
\* is logged and the file stays.
IngestUnlinkSettled(name, ok) ==
  /\ name \in ingest.unlinking
  /\ igDisk' = IF ok THEN igDisk \ {name} ELSE igDisk
  /\ ingest' = [ingest EXCEPT !.unlinking = @ \ {name},
                              !.logged = IF ok THEN @ ELSE @ \cup {name}]
  /\ UNCHANGED <<igFiles, igEditedAt>>
  /\ UNCHANGED notIngestVars

\* The row the duplicate lookup of field i finds: same userid (NULL for an
\* anonymous upload), same hash and size.
DuplicateOf(g, i) ==
  {f \in igFiles : f.userid = g.user /\ f.content = g.fields[i]}

\* Where storeFilesToDb goes once every lookup has resolved: to the answer
\* when there is nothing to insert, to the albums query when a user's files
\* name an album, else to the insert.
AfterLookups(g) ==
  IF g.looked # DOMAIN g.fields THEN g
  ELSE IF g.files = <<>>
    THEN [IngestEnded(g, "ok") EXCEPT !.response = g.files \o g.exists]
  ELSE IF g.user # Anonymous /\ g.albumid # 0 THEN [g EXCEPT !.pc = "albums"]
  ELSE [g EXCEPT !.pc = "insert"]

\* The lookup of field i resolves, in whatever order the database answers:
\* a duplicate is unlinked and pushed to exists, a new file is pushed to
\* files.
IngestLookupDone(i) ==
  /\ ingest.pc = "lookup"
  /\ i \in DOMAIN ingest.fields \ ingest.looked
  /\ IF DuplicateOf(ingest, i) # {}
       THEN /\ igDisk' = igDisk \ {<<ingest.n, i>>}
            /\ ingest' = AfterLookups([ingest EXCEPT !.looked = @ \cup {i},
                                                     !.exists = Append(@, i)])
       ELSE /\ igDisk' = igDisk
            /\ ingest' = AfterLookups([ingest EXCEPT !.looked = @ \cup {i},
                                                     !.files = Append(@, i)])
  /\ UNCHANGED <<igFiles, igEditedAt>>
  /\ UNCHANGED notIngestVars

\* Every album named is authorized, whoever owns it.
AuthorizedIdsOfAnyOwner(userid, albumids) ==
  albumids \cap DOMAIN IngestAlbumOwners

\* authorizedIds: the albums among albumids whose userid is the user's.
AuthorizedIds(userid, albumids) ==
  {a \in albumids \cap DOMAIN IngestAlbumOwners : IngestAlbumOwners[a] = userid}

\* The albums query resolves.
IngestAlbumsLoaded ==
  /\ ingest.pc = "albums"
  /\ ingest' = [ingest EXCEPT !.pc = "insert",
                              !.authorizedIds = AuthorizedIds(ingest.user, {ingest.albumid})]
  /\ UNCHANGED <<igFiles, igDisk, igEditedAt>>
  /\ UNCHANGED notIngestVars

\* The rows of files[]: the albumid of a file is kept for a user's file in
\* an authorized album and is NULL otherwise.
NewRows(g) ==
  { [name |-> <<g.n, g.files[k]>>, userid |-> g.user,
     albumid |-> IF g.albumid \in g.authorizedIds THEN g.albumid ELSE 0,
     content |-> g.fields[g.files[k]]] : k \in DOMAIN g.files }

\* The insert resolves; without an authorized album the response is sent.
IngestInsert ==
  /\ ingest.pc = "insert"
  /\ igFiles' = igFiles \cup NewRows(ingest)
  /\ ingest' = IF ingest.authorizedIds # {}
                 THEN [ingest EXCEPT !.pc = "update", !.inserted = TRUE]
                 ELSE [IngestEnded(ingest, "ok") EXCEPT
                         !.inserted = TRUE, !.response = ingest.files \o ingest.exists]
  /\ UNCHANGED <<igDisk, igEditedAt>>
  /\ UNCHANGED notIngestVars

\* The insert rejects and the request fails.
IngestInsertError ==
  /\ ingest.pc = "insert"
  /\ ingest' = IngestEnded(ingest, "db")
  /\ UNCHANGED <<igFiles, igDisk, igEditedAt>>
  /\ UNCHANGED notIngestVars

\* The editedAt update of the authorized albums resolves and the response is
\* sent: files[] followed by exists[].
IngestAlbumsUpdated ==
  /\ ingest.pc = "update"
  /\ igEditedAt' = [a \in DOMAIN igEditedAt |->
                      IF a \in ingest.authorizedIds THEN ingest.n ELSE igEditedAt[a]]
  /\ ingest' = [IngestEnded(ingest, "ok") EXCEPT !.response = ingest.files \o ingest.exists]
  /\ UNCHANGED <<igFiles, igDisk>>
  /\ UNCHANGED notIngestVars

\* The editedAt update rejects and the request fails.
IngestAlbumsUpdateError ==
  /\ ingest.pc = "update"
  /\ ingest' = IngestEnded(ingest, "db")
  /\ UNCHANGED <<igFiles, igDisk, igEditedAt>>
  /\ UNCHANGED notIngestVars

IngestNext ==
  \/ \E user \in Owners, albumid \in {0} \cup DOMAIN IngestAlbumOwners,
         scan \in {"off", "on"}, fields \in IngestFields :
       IngestCall(user, albumid, scan, fields)
  \/ IngestFieldWritten
  \/ IngestFieldError
  \/ \E verdict \in UNION {[1..k -> Verdicts] : k \in 1..MaxIngestFiles} :
       IngestScanDone(verdict)
  \/ IngestScanError
  \/ \E name \in ingest.unlinking, ok \in BOOLEAN : IngestUnlinkSettled(name, ok)
  \/ \E i \in 1..MaxIngestFiles : IngestLookupDone(i)
  \/ IngestAlbumsLoaded
  \/ IngestInsert
  \/ IngestInsertError
  \/ IngestAlbumsUpdated
  \/ IngestAlbumsUpdateError

(***************************************************************************)
(* One file field of a multipart upload                                    *)
(*                                                                         *)
(* The promise that actuallyUpload awaits for a file field that is not a   *)
(* chunk: readStream is piped into writeStream, through scanStream when a  *)
(* pass-through scanner is attached, and each chunk of data is fed to      *)
(* hashStream when hashing is enabled.  The events of the streams arrive   *)
(* in the order the runtime allows: a writer finishes only after the       *)
(* reader has ended, a stream that has ended, finished or been destroyed   *)
(* emits no error, and a listener added with once() runs once.             *)
(***************************************************************************)

\* The emitters whose 'error' event is listened to with _reject.
Emitters == {"readStream", "writeStream", "hashStream", "scanStream"}

NoField ==
  [pc |-> "idle", hashing |-> FALSE, scanning |-> FALSE,
   readStream |-> "none", writeStream |-> "none", hashStream |-> "none",
   scanStream |-> "none", listening |-> {}, weight |-> 0, error |-> FALSE,
   settled |-> 0, read |-> 0, hashed |-> 0, size |-> <<>>, scan |-> FALSE]
\* (pc: "idle", then the state of the promise: "pending", "resolved" or
\* "rejected"; readStream: "flowing", "ended" or "errored"; writeStream:
\* "open", "finished" or "destroyed"; hashStream: "none", "live", "digested"
\* or "disposed"; scanStream: "none", "scanning", "complete" or "errored";
\* listening: the emitters on which _reject is still registered; weight:
\* _weight; error: file.error; settled: the calls of resolve() and reject();
\* read: the chunks of data the reader has emitted, hashed: those fed to the
\* hasher; size: file.size, <<>> while it is not set; scan: is file.scan set.)

FieldInit == fileField = NoField

\* REQUIRED_WEIGHT of the weighted resolve.
REQUIRED_WEIGHT == 2

\* The writer's finish counts for the whole weight, scanner or not.
FinishWeightAlwaysFull(scanning) == REQUIRED_WEIGHT

\* The weight of the writer's finish: scanStream ? 1 : 2.
FinishWeight(scanning) == IF scanning THEN 1 ELSE 2

\* The calls of resolve() and reject() are counted up to this number.
MaxSettled == 3

\* A call of resolve() or reject(): only the first one settles the promise.
Settle(f, outcome) ==
  [f EXCEPT !.settled = IF @ < MaxSettled THEN @ + 1 ELSE @,
            !.pc = IF @ = "pending" THEN outcome ELSE @]

\* _reject, run by the 'error' event of emitter e (the once() listener of e
\* is spent by the call).
_reject(f, e) ==
  IF f.error THEN [f EXCEPT !.listening = @ \ {e}]
  ELSE Settle([f EXCEPT
         !.listening = @ \ {e, "writeStream", "hashStream", "scanStream"},
         !.error = TRUE,
         !.writeStream = IF @ = "open" THEN "destroyed" ELSE @,
         !.hashStream = IF @ = "live" THEN "disposed" ELSE @], "rejected")

\* Object.assign(file, props): the writer's finish brings size (and hash),
\* the scanner's verdict brings scan.
Assign(f, props) ==
  IF "size" \in DOMAIN props THEN [f EXCEPT !.size = <<props.size>>]
  ELSE [f EXCEPT !.scan = TRUE]

\* _resolve(props, weight).
_resolve(f, props, weight) ==
  IF f.error THEN f
  ELSE IF f.weight + weight >= REQUIRED_WEIGHT
    THEN Settle([Assign(f, props) EXCEPT
           !.weight = f.weight + weight,
           !.listening = @ \ {"writeStream", "hashStream", "scanStream"}],
         "resolved")
    ELSE [Assign(f, props) EXCEPT !.weight = f.weight + weight]

\* The field handler reaches the promise: the streams are created and the
\* listeners registered.
FieldStart(hashing, scanning) ==
  /\ fileField.pc = "idle"
  /\ fileField' = [NoField EXCEPT
       !.pc = "pending", !.hashing = hashing, !.scanning = scanning,
       !.readStream = "flowing", !.writeStream = "open",
       !.hashStream = IF hashing THEN "live" ELSE "none",
       !.scanStream = IF scanning THEN "scanning" ELSE "none",
       !.listening = {"readStream", "writeStream"}
                       \cup (IF hashing THEN {"hashStream"} ELSE {})
                       \cup (IF scanning THEN {"scanStream"} ELSE {})]
  /\ UNCHANGED notFieldVars

\* Model bound: the chunks of data of a field.
MaxFieldData == 2

\* 'data' of readStream: the chunk is piped on and, while the hasher has not
\* been disposed, fed to it.
ReadData ==
  /\ fileField.readStream = "flowing"
  /\ fileField.read < MaxFieldData
  /\ fileField' = [fileField EXCEPT
       !.read = @ + 1,
       !.hashed = IF fileField.hashStream = "live" THEN @ + 1 ELSE @]
  /\ UNCHANGED notFieldVars

\* The reader has delivered the last byte of the field.
ReadEnd ==
  /\ fileField.readStream = "flowing"
  /\ fileField' = [fileField EXCEPT !.readStream = "ended"]
  /\ UNCHANGED notFieldVars

\* 'finish' of writeStream: every byte piped is on disk.  The digest is
\* taken, which spends the hasher, and _resolve runs with the weight of the
\* writer.
WriteFinish ==
  /\ fileField.writeStream = "open"
  /\ fileField.readStream = "ended"
  /\ fileField' = _resolve([fileField EXCEPT
                 !.writeStream = "finished",
                 !.hashStream = IF @ = "live" THEN "digested" ELSE @],
               [size |-> fileField.read], FinishWeight(fileField.scanning))
  /\ UNCHANGED notFieldVars

\* 'scan-complete' of scanStream: the scanner's verdict.
ScanComplete ==
  /\ fileField.scanStream = "scanning"
  /\ fileField.readStream = "ended"
  /\ fileField' = _resolve([fileField EXCEPT !.scanStream = "complete"],
                         [scan |-> TRUE], 1)
  /\ UNCHANGED notFieldVars

\* Can emitter e emit 'error' now?
MayFail(f, e) ==
  CASE e = "readStream" -> f.readStream = "flowing"
    [] e = "writeStream" -> f.writeStream = "open"
    [] e = "hashStream" -> f.hashStream = "live"
    [] e = "scanStream" -> f.scanStream = "scanning"

\* The stream after its error: a stream destroys itself when it fails; the
\* hasher keeps its native hash until dispose() is called.
Failed(f, e) ==
  CASE e = "readStream" -> [f EXCEPT !.readStream = "errored"]
    [] e = "writeStream" -> [f EXCEPT !.writeStream = "destroyed"]
    [] e = "hashStream" -> f
    [] e = "scanStream" -> [f EXCEPT !.scanStream = "errored"]

\* 'error' of emitter e, with _reject still registered on it.
StreamErrorHeard(e) ==
  /\ fileField.pc # "idle"
  /\ MayFail(fileField, e)
  /\ e \in fileField.listening
  /\ fileField' = _reject(Failed(fileField, e), e)
  /\ UNCHANGED notFieldVars

\* 'error' of emitter e after _unlisten has removed _reject from it: no
\* code of the promise runs.
StreamErrorUnheard(e) ==
  /\ fileField.pc # "idle"
  /\ MayFail(fileField, e)
  /\ e \notin fileField.listening
  /\ fileField' = Failed(fileField, e)
  /\ UNCHANGED notFieldVars

FieldNext ==
  \/ \E hashing \in BOOLEAN, scanning \in BOOLEAN : FieldStart(hashing, scanning)
  \/ ReadData
  \/ ReadEnd
  \/ WriteFinish
  \/ ScanComplete
  \/ \E e \in Emitters : StreamErrorHeard(e)
  \/ \E e \in Emitters : StreamErrorUnheard(e)

(***************************************************************************)
(* Stats cache                                                             *)
(*                                                                         *)
(* generateStats and invalidateStatsCache for the categories without       *)
(* maxAge that the controllers invalidate.  The table a category is        *)
(* computed from is a version number that every write raises; a write is   *)
(* followed by invalidateStatsCache of the category.                       *)
(***************************************************************************)

\* Model bound: the writes to the table of a category.
MaxStatsWrites == 2

\* Two of the categories of statGenerators that have no maxAge.
StatNames == {"uploads", "users"}

\* self.cachedStats[name] before the first generateStats of the category.
NoCachedStats == [exists |-> FALSE, cache |-> <<>>, generating |-> FALSE]
\* (cache: <<>> for null, else <<v>>: the stats of version v of the table.)

StatsInit ==
  /\ cachedStats = [name \in StatNames |-> NoCachedStats]
  /\ statsGen = [name \in StatNames |-> [data |-> 0, pc |-> "idle", read |-> 0]]

\* The test of generateStats on a cache that exists: without maxAge the
\* cache is kept unless the caller forces a regeneration.
CacheKept(entry, force) == entry.cache # <<>> /\ ~force

\* generateStats(db, categories, force) up to the awaits of opts.funct(db):
\* for each category asked for, the entry is created when missing; nothing
\* more happens to it while a generation is running or when the cache is
\* kept; else generating is set and opts.funct(db) called.
StatsGenerate(categories, force) ==
  /\ \E entries \in {[name \in StatNames |->
                         IF name \in categories THEN [cachedStats[name] EXCEPT !.exists = TRUE]
                         ELSE cachedStats[name]]} :
       \E starts \in {{name \in categories :
                         ~entries[name].generating /\ ~CacheKept(entries[name], force)}} :
         /\ cachedStats' = [name \in StatNames |->
                              IF name \in starts THEN [entries[name] EXCEPT !.generating = TRUE]
                              ELSE entries[name]]
         /\ statsGen' = [name \in StatNames |->
                           IF name \in starts THEN [statsGen[name] EXCEPT !.pc = "query"]
                           ELSE statsGen[name]]
  /\ UNCHANGED notStatsVars

\* The queries of opts.funct(db) resolve: the stats are computed from the
\* table as it is now.
StatsQueryDone(name) ==
  /\ statsGen[name].pc = "query"
  /\ statsGen' = [statsGen EXCEPT ![name].pc = "computed", ![name].read = statsGen[name].data]
  /\ UNCHANGED cachedStats
  /\ UNCHANGED notStatsVars

\* opts.funct(db) resolves: cache = its result, generating = false.
StatsGenerated(name) ==
  /\ statsGen[name].pc = "computed"
  /\ cachedStats' = [cachedStats EXCEPT ![name].cache = <<statsGen[name].read>>,
                                        ![name].generating = FALSE]
  /\ statsGen' = [statsGen EXCEPT ![name].pc = "idle", ![name].read = 0]
  /\ UNCHANGED notStatsVars

\* opts.funct(db) rejects: the catch returns null, which becomes the cache.
StatsFailed(name) ==
  /\ statsGen[name].pc \in {"query", "computed"}
  /\ cachedStats' = [cachedStats EXCEPT ![name].cache = <<>>, ![name].generating = FALSE]
  /\ statsGen' = [statsGen EXCEPT ![name].pc = "idle", ![name].read = 0]
  /\ UNCHANGED notStatsVars

\* invalidateStatsCache(type): nothing without an entry, else cache = null.
invalidateStatsCache(entry) ==
  IF ~entry.exists THEN entry ELSE [entry EXCEPT !.cache = <<>>]

\* A write to the table of a category (an insert of files, a change of
\* users) followed by invalidateStatsCache of the category.
StatsWrite(name) ==
  /\ statsGen[name].data < MaxStatsWrites
  /\ statsGen' = [statsGen EXCEPT ![name].data = @ + 1]
  /\ cachedStats' = [cachedStats EXCEPT ![name] = invalidateStatsCache(@)]
  /\ UNCHANGED notStatsVars

StatsNext ==
  \/ \E categories \in SUBSET StatNames \ {{}}, force \in BOOLEAN :
       StatsGenerate(categories, force)
  \/ \E name \in StatNames : StatsQueryDone(name)
  \/ \E name \in StatNames : StatsGenerated(name)
  \/ \E name \in StatNames : StatsFailed(name)
  \/ \E name \in StatNames : StatsWrite(name)

(***************************************************************************)
(* Specifications                                                          *)
(***************************************************************************)

\* The album of the specifications that are not about the ZIP generator.
OpenAlbum == album.enabled /\ album.public /\ album.download

InitChunks == ChunkInit /\ UploadInit /\ BulkInit /\ ZipInit /\ SweepInit /\ ListInit /\ AlbumsInit /\ DelInit /\ UsersInit /\ IngestInit /\ FieldInit /\ StatsInit /\ OpenAlbum
SpecChunks == InitChunks /\ [][ChunkNext]_vars

\* A step of a request that has arrived: the filesystem, the streams and the
\* database answer.
ChunkProgress ==
  \E r \in ChunkReqs :
    \/ ChunkInitDone(r) \/ ChunkInitFail(r)
    \/ ChunkWriteEnd(r) \/ ChunkWriteError(r)
    \/ FinishMove(r) \/ FinishMoveError(r)
    \/ FinishStore(r) \/ FinishStoreError(r)

\* The chunk coordinator with the scheduling of Node.js: a timer that is set
\* fires, and an operation that is awaited settles.  Requests arrive when
\* clients send them, under no fairness.
SpecChunksLive ==
  /\ InitChunks
  /\ [][ChunkNext]_vars
  /\ WF_vars(\E u \in UUIDs : ChunkTimeout(u))
  /\ WF_vars(ChunkProgress)

\* The chunk coordinator together with the multipart uploads that name a
\* session's uuid without being chunks of it.
ChunkOrPlainNext ==
  \/ ChunkNext
  \/ \E u \in UUIDs, n \in 1..2 : PlainUploadWithUuid(u, n)

SpecChunksPlain == InitChunks /\ [][ChunkOrPlainNext]_vars

InitUpload == ChunkInit /\ UploadInit /\ BulkInit /\ ZipInit /\ SweepInit /\ ListInit /\ AlbumsInit /\ DelInit /\ UsersInit /\ IngestInit /\ FieldInit /\ StatsInit /\ OpenAlbum
SpecUpload == InitUpload /\ [][UploadNext]_vars

SpecUploadFs == InitUpload /\ [][UploadFsNext]_vars

InitBulkDelete == ChunkInit /\ UploadInit /\ BulkInit /\ ZipInit /\ SweepInit /\ ListInit /\ AlbumsInit /\ DelInit /\ UsersInit /\ IngestInit /\ FieldInit /\ StatsInit /\ OpenAlbum
SpecBulkDelete == InitBulkDelete /\ [][BulkNext]_vars

InitZip == ChunkInit /\ UploadInit /\ BulkInit /\ ZipInit /\ SweepInit /\ ListInit /\ AlbumsInit /\ DelInit /\ UsersInit /\ IngestInit /\ FieldInit /\ StatsInit
SpecZip == InitZip /\ [][ZipNext]_vars

\* An album that has been archived before: a file was added in second 1 and
\* the archive built and served in second 2.  The requests of the model come
\* after that.
ZipBuiltInit ==
  /\ album \in [enabled : {TRUE}, public : BOOLEAN, download : {TRUE},
                editedAt : {1}, zipGeneratedAt : {2}]
  /\ albumFiles = 1
  /\ zipEmitters = FALSE
  /\ zipFile = [state |-> "complete", by |-> 1, members |-> 1]
  /\ builds = 1
  /\ zreq = [r \in ZipReqs |-> IdleZipReq]
  /\ now = 2
  /\ changedSince = FALSE

\* The ZIP generator within one second of the clock.
ZipRebuildNext ==
  \/ \E n \in 0..MaxAlbumFiles : AlbumFilesChange(n)
  \/ AlbumDisable
  \/ AlbumEnable
  \/ \E r \in ZipReqs, v \in BOOLEAN : ZipRequest(r, v)
  \/ \E r \in ZipReqs : ZipAlbumLoaded(r)
  \/ \E r \in ZipReqs : ZipStatOk(r)
  \/ \E r \in ZipReqs : ZipStatMissing(r)
  \/ \E r \in ZipReqs : ZipNoFiles(r)
  \/ \E r \in ZipReqs : ZipSizeExceeds(r)
  \/ \E r \in ZipReqs : ZipFilesLoaded(r)
  \/ \E r \in ZipReqs : ZipBuildError(r)
  \/ \E r \in ZipReqs : ZipArchiveDone(r)
  \/ \E r \in ZipReqs : ZipUpdateDone(r)
  \/ \E r \in ZipReqs : ZipResultStat(r)

InitZipRebuild == ChunkInit /\ UploadInit /\ BulkInit /\ ZipBuiltInit /\ SweepInit /\ ListInit /\ AlbumsInit /\ DelInit /\ UsersInit /\ IngestInit /\ FieldInit /\ StatsInit
SpecZipRebuild == InitZipRebuild /\ [][ZipRebuildNext]_vars

InitSweeper == InitBulkDelete
SpecSweeper == InitSweeper /\ [][SweepNext]_vars

InitList == InitBulkDelete
SpecList == InitList /\ [][ListNext]_vars

InitAlbums == InitBulkDelete
SpecAlbums == InitAlbums /\ [][AlbumsNext]_vars

InitAlbumDelete == InitBulkDelete
SpecAlbumDelete == InitAlbumDelete /\ [][AlbumDeleteNext]_vars

InitUsers == InitBulkDelete
SpecUsers == InitUsers /\ [][UsersNext]_vars

InitIngest == InitBulkDelete
SpecIngest == InitIngest /\ [][IngestNext]_vars

InitStats == InitBulkDelete
SpecStats == InitStats /\ [][StatsNext]_vars

InitField == InitBulkDelete
SpecField == InitField /\ [][FieldNext]_vars

(***************************************************************************)
(* Properties of the chunk coordinator (SpecChunks)                        *)
(***************************************************************************)

\* The request has been accepted by initChunks and is still appending to the
\* session's temporary file.
ChunkInProgress(r) == creq[r].pc \in {"init", "writing"} /\ ~creq[r].stale

\* C1: a chunk request that arrives while an earlier chunk of the same UUID is
\* accepted and not yet completed is rejected, so at most one request is
\* appending to a UUID's temporary file at any instant, for every chunk of the
\* session.
C1_OneChunkInProgressPerUuid ==
  \A r1 \in ChunkReqs, r2 \in ChunkReqs :
    (r1 # r2 /\ ChunkInProgress(r1) /\ ChunkInProgress(r2))
      => creq[r1].uuid # creq[r2].uuid

\* The last finish request found an entry whose chunks counter was below 2
\* or above maxChunksCount.
FinishedWithBadCount ==
  /\ finishResult.error \notin {"none", "uuid"}
  /\ finishResult.count < 2 \/ finishResult.count > maxChunksCount

\* C11 as stated: Finalize of a chunk session whose count of accepted chunks
\* is below 2 or above maxChunks fails with 'Invalid chunks count.', and no
\* file is moved into uploads/ and no row is inserted for that session.
C11_BadCountFailsWithInvalidChunksCount ==
  FinishedWithBadCount
    => finishResult.error = "count" /\ ~finishResult.moved

\* C11 amended: such a Finalize fails, moves no file and inserts no row; its
\* error is 'Invalid chunks count.' unless an earlier step of the handler
\* throws first: a session with no accepted chunk is still processing, and
\* the streams of a session may be missing or destroyed.
C11_BadCountNeverCommits ==
  FinishedWithBadCount
    => /\ ~finishResult.moved
       /\ finishResult.error \in {"processing", "stream", "digest", "count"}
       /\ finishResult.error = "processing" <=> finishResult.count = 0

C11_Witness ==
  finishResult.error = "count" /\ finishResult.count > maxChunksCount

\* The last finish request succeeded for N chunks of one unit each, sent one
\* after the other, and the client reported their total size.
FinishedWithExpectedSize ==
  /\ finishResult.error = ""
  /\ finishResult.serial
  /\ finishResult.given
  /\ finishResult.size = finishResult.count

\* C12: N >= 2 chunks totalling S bytes, each accepted before the next is
\* sent, then Finalize with expected size S: the committed file has size S,
\* its content is the concatenation of the chunks in upload order, and the
\* stored hash is the digest of that concatenation.
C12_FinishedFileIsConcatenation ==
  FinishedWithExpectedSize
    => /\ finishResult.count >= 2
       /\ finishResult.content = [i \in 1..finishResult.count |-> i]
       /\ Len(finishResult.content) = finishResult.size
       /\ finishResult.hash = Digest(finishResult.content)

C12_Witness ==
  FinishedWithExpectedSize /\ finishResult.moved

\* C13: two clients with different IP addresses that use the same UUID have
\* independent chunk sessions: the entry one client created serves no chunk
\* or finish request of the other.
C13_SessionServesOnlyItsCreator ==
  \A u \in UUIDs : chunksData[u].present => ~chunksData[u].shared

\* C14: every chunk session that is created is eventually destroyed: once an
\* entry exists and no further chunk or finish request for it arrives, the
\* idle timeout removes it, also when the first chunk failed while the
\* directory was made or while it was streamed.
C14_SessionEventuallyDestroyed ==
  \A u \in UUIDs : chunksData[u].present ~> ~chunksData[u].present

\* The request is the one that holds processing = true for its session: it
\* was accepted by initChunks and the session it was accepted for is still
\* the one in the map.
HoldsProcessing(r, u) ==
  /\ creq[r].uuid = u
  /\ creq[r].pc \in {"init", "writing"}
  /\ ~creq[r].stale

\* C30: the chunks counter of a session is raised, and its processing flag
\* cleared, only by a step of the chunk request that holds processing = true
\* for the session; a multipart request that was not accepted as a chunk of
\* the session does neither.  (Removing the session, by a finish request or
\* the timeout, is not a change of the counter.)
C30_OnlyTheHolderCountsChunks ==
  [][\A u \in UUIDs :
       ( /\ chunksData[u].present /\ chunksData'[u].present
         /\ \/ chunksData'[u].chunks # chunksData[u].chunks
            \/ chunksData[u].processing /\ ~chunksData'[u].processing )
       => \E r \in ChunkReqs : HoldsProcessing(r, u) /\ creq'[r] # creq[r]]_vars

\* The step calls cleanUpChunks(u): the timeout of the session fires, the
\* catch of finishChunks finds an entry for the uuid, or the finish request
\* has moved the tmp file.
CleanUpCalled(u) ==
  \/ ChunkTimeout(u)
  \/ \E r \in ChunkReqs, ip \in IPs, size \in FinishSizes :
       /\ FinishChunks(r, u, ip, size)
       /\ chunksData[u].present
       /\ FinishError(chunksData[u], size) # ""
  \/ \E r \in ChunkReqs :
       /\ creq[r].uuid = u
       /\ chunksData[u].present
       /\ FinishMove(r) \/ FinishMoveError(r) \/ FinishStoreError(r)

\* C33: whatever the state of the uuid when cleanUpChunks(uuid) is called,
\* the call does not throw and leaves the uuid with no map entry, no open
\* write stream and no directory.
C33_CleanUpLeavesNothing ==
  [][\A u \in UUIDs :
       CleanUpCalled(u)
         => /\ ~chunksData'[u].present
            /\ chunksData'[u].writeStream # "open"
            /\ ~chunksData'[u].dir]_vars

\* C34: a finish request that is refused because the session is still
\* processing a chunk leaves the session as it was: write stream, hasher,
\* tmp file, directory and map entry.
C34_RefusedFinishLeavesSessionAlone ==
  [][\A u \in UUIDs :
       ( /\ chunksData[u].present
         /\ chunksData[u].processing
         /\ \E r \in ChunkReqs, ip \in IPs, size \in FinishSizes :
              FinishChunks(r, u, ip, size) )
         => chunksData'[u] = chunksData[u]]_vars

\* C38: the idle timeout cleans a session up only while the session is
\* idle: never while a request is writing a chunk of it or finalizing it.
C38_TimeoutOnlyWhileIdle ==
  [][\A u \in UUIDs :
       ChunkTimeout(u)
         => ~\E r \in ChunkReqs :
               /\ creq[r].uuid = u
               /\ ~creq[r].stale
               /\ creq[r].pc \in {"init", "writing", "finishing"}]_vars

(***************************************************************************)
(* Properties of the identifier allocator and upload pipeline (SpecUpload) *)
(***************************************************************************)

\* The allocator has returned an identifier to the request, and the request's
\* response has not finished.
IdentifierReturned(r) ==
  /\ ureq[r].pc \in {"stream", "scan", "store", "insert", "respond"}
  /\ ureq[r].identifier # NoIdentifier

\* The identifiers of the rows of the table the request's allocator guards.
RowIdentifiers(kind) ==
  IF kind = "album" THEN albumRows ELSE {files[i].name.id : i \in 1..Len(files)}

\* C2: in database-check mode an identifier returned to a request equals
\* neither an identifier returned to another request whose response has not
\* finished, nor (until the request inserts its own row) the identifier of a
\* row of the table.
C2_ReturnedIdentifierIsUnique ==
  \A r \in UploadReqs :
    IdentifierReturned(r) =>
      /\ \A q \in UploadReqs \ {r} :
           (IdentifierReturned(q) /\ ureq[q].kind = ureq[r].kind)
             => ureq[q].identifier # ureq[r].identifier
      /\ ~ureq[r].inserted => ureq[r].identifier \notin RowIdentifiers(ureq[r].kind)

\* C3: once every started upload request has completed, whatever step it
\* failed at, the OnHold set of file identifiers is empty.
C3_OnHoldEmptyWhenNoUploadInFlight ==
  (\A r \in UploadReqs : ureq[r].pc \in {"idle", "finished"}) => onHold = {}

\* The request found its bytes stored by an upload of the same owner that had
\* completed.
RepeatedUpload(r) ==
  /\ ureq[r].kind = "upload"
  /\ ureq[r].pc = "respond"
  /\ ureq[r].repeatedOf # 0
  /\ \E q \in UploadReqs \ {r} :
       /\ ureq[q].pc = "finished"
       /\ ureq[q].inserted
       /\ files[ureq[r].repeatedOf].name = StagedName(ureq[q])

\* C4: the second upload of the same bytes by the same owner inserts no row,
\* unlinks its staged file, and its response entry carries the first upload's
\* name and is marked repeated.
C4_RepeatedUploadIsMarked ==
  \A r \in UploadReqs :
    RepeatedUpload(r) =>
      /\ ~ureq[r].inserted
      /\ Len(ureq[r].response) = 1
      /\ ureq[r].response[1]["name"] = <<files[ureq[r].repeatedOf].name>>
      /\ StagedName(ureq[r]) \notin disk
      /\ "repeated" \in DOMAIN ureq[r].response[1]

\* The request holds an identifier that the allocator has returned to it and
\* its response has not finished.
FsInFlight(r) ==
  /\ ureq[r].kind = "upload"
  /\ ureq[r].pc \in {"open", "stream", "scan", "store", "insert", "respond"}
  /\ ureq[r].identifier # NoIdentifier

\* C36: in filesystem-check mode the allocator returns no identifier whose
\* file name exists under uploads/ or is held by another request that has
\* not finished yet.
C36_FsAllocationNeverCollides ==
  \A r \in UploadReqs :
    ureq[r].kind = "upload" /\ ureq[r].pc = "open"
      => /\ StagedName(ureq[r]) \notin disk
         /\ \A q \in UploadReqs \ {r} :
              FsInFlight(q) => StagedName(ureq[q]) # StagedName(ureq[r])

(***************************************************************************)
(* Properties of the bulk deleter (SpecBulkDelete)                         *)
(***************************************************************************)

\* The rows a value named when the call started.
RowsBefore(v) == {f \in bd.before : FieldOf(f, bd.field) = v}

\* The value named rows and all of them left the table.
BulkDeleted(v) == RowsBefore(v) # {} /\ RowsBefore(v) \cap bdFiles = {}

\* C5: when bulkDeleteFromDb returns, failed together with the deleted values
\* is V; a deleted value has no row and no file left; and every value with a
\* row or a file left, also after a failed unlink or a failed row delete, is
\* in failed.
C5_FailedAndDeletedPartitionValues ==
  bd.pc = "returned" =>
    /\ bd.failed \cup {v \in bd.values : BulkDeleted(v)} = bd.values
    /\ \A v \in bd.values :
         BulkDeleted(v) => \A f \in RowsBefore(v) : f.name \notin bdDisk
    /\ \A v \in bd.values :
         (\E f \in RowsBefore(v) : f \in bdFiles \/ f.name \in bdDisk)
           => v \in bd.failed

\* C6: for a caller who is not a moderator no row of another user is deleted
\* and no file of such a row is unlinked, and a value that matches only other
\* users' files is returned in failed.
C6_OthersFilesAreOutOfReach ==
  ~bd.actor.moderator =>
    /\ \A f \in bd.before :
         f.userid # bd.actor.id
           => f \in bdFiles /\ (f.name \in bd.diskBefore => f.name \in bdDisk)
    /\ bd.pc = "returned" =>
         \A v \in bd.values :
           (RowsBefore(v) # {} /\ \A f \in RowsBefore(v) : f.userid # bd.actor.id)
             => v \in bd.failed

\* A plain user's call has returned: it named a file of another user, which is
\* in failed, and a file of the caller, which is deleted.
C6_Witness ==
  /\ bd.pc = "returned"
  /\ ~bd.actor.moderator
  /\ \E v \in bd.values :
       /\ RowsBefore(v) # {}
       /\ \A f \in RowsBefore(v) : f.userid # bd.actor.id
       /\ v \in bd.failed
  /\ \E v \in bd.values :
       /\ BulkDeleted(v)
       /\ \A f \in RowsBefore(v) : f.userid = bd.actor.id /\ f.name \notin bdDisk

\* C21: from the moment the file rows of an album change, here by a bulk
\* delete or an expiry sweep of member files, the album's editedAt has been
\* set to the time of the change: no state shows the rows gone and the
\* album's editedAt not yet updated.
C21_EditedAtSetWhenFileRowsChange ==
  \A f \in InitialFileRows \ bdFiles : f.albumid # 0 => f.albumid \in bdEdited

(***************************************************************************)
(* Properties of the album deletion (SpecAlbumDelete)                      *)
(***************************************************************************)

\* C22: no file row keeps an albumid that refers to an album row that has been
\* deleted: after a hard deletion of an album the albumid of its former
\* members is cleared.
C22_NoAlbumidOfDeletedAlbum ==
  \A f \in bdFiles : f.albumid # 0 => bdAlbums[f.albumid].present

\* C23: after a delete request with purge by the album's owner has been
\* answered, every file of the album owned by the owner is deleted, row and
\* file on disk, or listed in failed, the album's row is absent and the
\* album's ZIP is absent.
C23_PurgeDeletesFilesAlbumAndZip ==
  (adel.pc = "done" /\ adel.purge /\ adel.body /\ adel.user.id = adel.userid) =>
    /\ \A f \in adel.members :
         (f \notin bdFiles /\ f.name \notin bdDisk) \/ f.id \in adel.failed
    /\ ~bdAlbums[adel.id].present
    /\ adel.id \notin bdZips

(***************************************************************************)
(* Properties of the user administration (SpecUsers)                       *)
(***************************************************************************)

C40_UsernamesUniqueAndRootReserved ==
  /\ \A i, j \in UserRowIds :
       (i # j /\ users[i].present /\ users[j].present)
         => users[i].username # users[j].username
  /\ \A i \in UserRowIds \ {RootId} :
       users[i].present => users[i].username # "root"

(***************************************************************************)
(* Properties of the ingest of a multipart upload (SpecIngest)             *)
(***************************************************************************)

\* The rows of table files that the call being served inserted.
RowsOfCall == {f \in igFiles \ IngestInitialRows : f.name[1] = ingest.n}

\* C25: the insert of the file rows of an ingest call and the editedAt update
\* of the albums that received them are atomic: in every state, also after a
\* database failure, both have taken effect or neither has.
C25_InsertAndEditedAtAreAtomic ==
  ingest.authorizedIds # {} =>
    (ingest.inserted <=> \A a \in ingest.authorizedIds : igEditedAt[a] = ingest.n)

\* C26: the files array of the response lists the entries in the order the
\* file fields arrived, whichever of them were duplicates and in whatever
\* order the lookups resolved.
C26_ResponseInArrivalOrder ==
  ingest.outcome = "ok" =>
    ingest.response = [i \in DOMAIN ingest.fields |-> i]

C31_WrittenFilesHaveRowOrAreUnlinked ==
  (ingest.pc = "done" /\ ingest.unlinking = {})
    => \A name \in Staged(ingest) :
         name \in igDisk
           => \/ \E f \in igFiles : f.name = name
              \/ name \in ingest.logged

\* C35: with hashing enabled the table files never holds two rows with the
\* same userid, hash and size (the bytes stand for hash and size).
C35_NoTwoRowsOfOneOwnerAndContent ==
  \A f, g \in igFiles :
    (f.userid = g.userid /\ f.content = g.content) => f.name = g.name

(***************************************************************************)
(* Properties of the promise of a file field (SpecField)                   *)
(***************************************************************************)

\* C32: the promise of a file field that is not a chunk settles once: it is
\* resolved only when the writer has finished and, with a pass-through
\* scanner attached, the scanner has given its verdict, in either order;
\* the first stream error rejects it, destroys the writer and disposes the
\* hasher; no later error or completion event settles it again or changes
\* the error mark of the file (a resolved field is never marked, a rejected
\* one stays marked).
C32_FieldPromiseSettlesOnce ==
  /\ fileField.settled <= 1
  /\ fileField.pc = "resolved"
       => /\ fileField.writeStream = "finished"
          /\ fileField.scanning => fileField.scanStream = "complete"
          /\ ~fileField.error
  /\ fileField.error
       => /\ fileField.pc = "rejected"
          /\ fileField.writeStream # "open"
          /\ fileField.hashStream # "live"
  /\ fileField.pc = "rejected" => fileField.error

\* A field with hasher and scanner whose promise is resolved, the writer's
\* finish and the scanner's verdict both in.
C32_Witness ==
  /\ fileField.pc = "resolved"
  /\ fileField.hashing /\ fileField.scanning
  /\ fileField.scan
  /\ fileField.size = <<MaxFieldData>>

(***************************************************************************)
(* Properties of the stats cache (SpecStats)                               *)
(***************************************************************************)

\* C39: the result of a generation that was computed from the table as it
\* was before an invalidation is not kept as the valid cache: once no
\* generation is running, a cache that is there holds the stats of the table
\* as it is (so the next request either finds it current or regenerates).
C39_KeptCacheIsCurrent ==
  \A name \in StatNames :
    ( /\ cachedStats[name].exists
      /\ ~cachedStats[name].generating
      /\ cachedStats[name].cache # <<>> )
      => cachedStats[name].cache = <<statsGen[name].data>>

(***************************************************************************)
(* Properties of the album ZIP generator (SpecZip)                         *)
(***************************************************************************)

\* C7: at most one ZIP build of the identifier is running at any time, and a
\* requester that waited and was served got the file of the build it waited
\* for.
C7_SingleFlight ==
  /\ Cardinality({r \in ZipReqs : ZipBuilding(r)}) <= 1
  /\ \A r \in ZipReqs :
       (zreq[r].role = "waiter" /\ zreq[r].pc = "served")
         => /\ zreq[r].served = zreq[r].build
            /\ \E b \in ZipReqs :
                 /\ zreq[b].role = "builder"
                 /\ zreq[b].build = zreq[r].build
                 /\ zreq[b].pc = "served"

\* A request arrived during a build, waited, and was served that build's file.
C7_Witness ==
  \E r \in ZipReqs, b \in ZipReqs :
    /\ zreq[r].role = "waiter"
    /\ zreq[r].pc = "served"
    /\ zreq[b].role = "builder"
    /\ zreq[b].pc = "served"
    /\ zreq[r].served = zreq[b].build

\* C8: a build that fails after its in-flight slot was set removes the slot
\* and its waiters receive an error: a slot, and a waiting requester, exist
\* only while a build is running.
C8_SlotOnlyWhileBuilding ==
  (zipEmitters \/ \E r \in ZipReqs : zreq[r].pc = "waiting")
    => \E b \in ZipReqs : ZipBuilding(b)

\* C9: generateZip serves or builds only for an album it read as enabled,
\* public and download-allowed; any other request is rejected and starts no
\* build.
C9_OnlyOpenAlbumsAreZipped ==
  \A r \in ZipReqs :
    (zreq[r].pc \in {"stat", "waiting", "served"} \/ ZipBuilding(r))
      => zreq[r].seen.enabled /\ zreq[r].seen.public /\ zreq[r].seen.download

\* The latest build ended with its archive served, by a request that read the
\* album as public, and the album has not changed since the build started.
BuildDoneAndNoChange ==
  /\ ~changedSince
  /\ \E b \in ZipReqs :
       /\ zreq[b].role = "builder"
       /\ zreq[b].build = builds
       /\ zreq[b].pc = "served"
       /\ zreq[b].seen.public

C29_CachedZipHoldsCurrentFiles ==
  \A r \in ZipReqs :
    (zreq[r].pc = "served" /\ zreq[r].role = "cached") => ~zreq[r].stale

\* C37: the archive a request is served is a complete one: never the file a
\* running build is still writing, nor what a failed build left behind.
C37_ServedZipIsComplete ==
  [][\A r \in ZipReqs :
       (zreq[r].pc # "served" /\ zreq'[r].pc = "served")
         => zipFile.state = "complete"]_vars

(***************************************************************************)
(* Properties of the retention sweeper (SpecSweeper)                       *)
(***************************************************************************)

\* The calls of temporaryUploadCheck that are running bulkDeleteExpired.
Sweeping == {k \in SweepTicks : sweep.pc[k] # "idle"}

\* C15: at most one retention sweep runs at a time, a tick of the timer that
\* fires during a sweep does nothing, and the in-progress flag is cleared
\* after every sweep, also after one that throws.
C15_OneSweepAtATime ==
  /\ Cardinality(Sweeping) <= 1
  /\ sweep.inProgress <=> Sweeping # {}

C15_Witness ==
  /\ sweep.last = "skipped"
  /\ Cardinality(Sweeping) = 1

\* The last sweep ran to its end, no unlink and no query of it rejected, and
\* the album update it issued has completed.
SweepDoneWithoutError ==
  /\ sweep.last = "done"
  /\ Sweeping = {}
  /\ ~bd.error
  /\ bd.albumids = {}

RegularCaller == \E u \in ListUsers : u.id = lreq.user /\ ~u.moderator

\* The bare words of the filters header, included and excluded.
FreeText == SelectSeq(lreq.filters, LAMBDA t : t.key = "text")

\* The included terms key:value of the filters header.
Keyed(key) == SelectSeq(lreq.filters, LAMBDA t : t.key = key /\ ~t.exclude)

\* The request was refused with a client error and was given no rows.
ListRejected == lreq.status \in {400, 403} /\ lreq.files = {}

\* The moderator is refused by none of the caps.
ModeratorUncapped ==
  (lreq.pc = "answered" /\ ~RegularCaller)
    => lreq.error \notin {"text", "wildcards", "sort", "is"}

\* C17 as stated: for a caller who is not a moderator, a filter with more
\* than MAX_TEXT_QUERIES free-text terms, more than MAX_WILDCARDS_IN_KEY
\* wildcards in one term, more than MAX_SORT_KEYS sort keys or more than
\* MAX_IS_KEYS is: keys is rejected and returns no rows; a moderator is never
\* rejected by these caps.
C17_OverCapIsRejected ==
  /\ (/\ lreq.pc = "answered"
      /\ RegularCaller
      /\ \/ Len(FreeText) > MAX_TEXT_QUERIES
         \/ \E i \in DOMAIN FreeText :
              WildcardCount(FreeText[i].value, "") > MAX_WILDCARDS_IN_KEY
         \/ Len(Keyed("sort")) > MAX_SORT_KEYS
         \/ Len(Keyed("is")) > MAX_IS_KEYS)
       => ListRejected
  /\ ModeratorUncapped

\* C17 (amended): as above, where the sort keys are counted after duplicates
\* and '-' are removed, and the is: keys counted are the distinct types among
\* image, video and audio.
C17_OverCapOfDistinctKeysIsRejected ==
  /\ (/\ lreq.pc = "answered"
      /\ RegularCaller
      /\ \/ Len(FreeText) > MAX_TEXT_QUERIES
         \/ \E i \in DOMAIN FreeText :
              WildcardCount(FreeText[i].value, "") > MAX_WILDCARDS_IN_KEY
         \/ Cardinality(Range(Keyed("sort")) \ {<<"-">>}) > MAX_SORT_KEYS
         \/ Cardinality({t.value : t \in {x \in Range(lreq.filters) : x.key = "is"}}
                          \cap {<<x>> : x \in Range(typeIs)}) > MAX_IS_KEYS)
       => ListRejected
  /\ ModeratorUncapped

C17_Witness ==
  /\ lreq.pc = "answered"
  /\ RegularCaller
  /\ ~lreq.all
  /\ Len(FreeText) <= MAX_TEXT_QUERIES
  /\ Len(Keyed("is")) > MAX_IS_KEYS
  /\ lreq.status = 400
  /\ lreq.error = "is"

\* The rows of table files the response holds.
ListedRows == {f \in ListFiles : f.id \in lreq.files}

\* C18: a list request that is not a 'list all uploads' request returns only
\* rows whose userid is the caller's id, whatever the filter and the page; a
\* 'list all uploads' request of a non-moderator is answered 403; and the
\* user and ip keys and sorting by ip or userid have effect only in a 'list
\* all uploads' request.
C18_ListIsScopedToCaller ==
  lreq.pc = "answered"
    => /\ ~lreq.all => \A f \in ListedRows : f.userid = lreq.user
       /\ (lreq.all /\ RegularCaller) => (lreq.status = 403 /\ lreq.files = {})
       /\ ~lreq.all => /\ lreq.keys = {}
                       /\ Range(lreq.sort) \cap {"ip", "userid"} = {}
                       /\ ~lreq.ip

C18_Witness ==
  /\ lreq.pc = "answered"
  /\ ~lreq.all
  /\ lreq.status = 200
  /\ lreq.page = -1
  /\ lreq.user = 1
  /\ lreq.files = {1}
  /\ Len(Keyed("is")) = 1

(***************************************************************************)
(* Properties of the album API (SpecAlbums)                                *)
(***************************************************************************)

\* C19: after any sequence and interleaving of create, edit, disable and
\* moderator edit requests, no user owns two enabled albums of the same name.
C19_EnabledAlbumNamesUnique ==
  \A a, b \in AlbumRowIds :
    (/\ a # b
     /\ albums[a].present /\ albums[b].present
     /\ albums[a].enabled /\ albums[b].enabled
     /\ albums[a].userid = albums[b].userid)
      => albums[a].name # albums[b].name

\* C20: editedAt of an album never decreases, and after every successful
\* mutation of the album through the album API it is not less than the time
\* of the mutation.
C20_EditedAtFollowsMutations ==
  \A a \in AlbumRowIds : ~albums[a].decreased /\ ~albums[a].behind

============================================================================
